---- MODULE Spec2Model ----
(***************************************************************************)
(* Nexus Local: the indexing pipeline (crates/nexus_core), the State       *)
(* Manager (crates/store/src/state.rs), the Vector Store                   *)
(* (crates/store/src/lib.rs) and the Lexical Index                         *)
(* (crates/store/src/lexical.rs) as one state machine.                     *)
(*                                                                         *)
(* The disk is the environment: files are touched, grown and deleted       *)
(* between the calls.  One process runs garbage_collect and                *)
(* run_with_progress; run_with_progress is split at the points where the   *)
(* process can be killed: once per Phase-1 worker, once per Phase-2 file,  *)
(* once per Phase-3 file header, once per page, once for Phase 4.          *)
(***************************************************************************)
EXTENDS Integers, Sequences, FiniteSets, TLC

(***************************************************************************)
(* Bounds of the model.                                                    *)
(***************************************************************************)
MaxFlatChunks == 3      \* a flat file's text chunks into 0..MaxFlatChunks chunks
MaxPages == 2           \* a paged file has 0..MaxPages pages
MaxPageChunks == 1      \* a page's text chunks into 0..MaxPageChunks chunks
MaxOps == 3             \* garbage_collect and run_with_progress calls per behaviour
MaxDiskOps == 1         \* touches, growths and deletions per behaviour
MaxFaults == 1          \* failing embedder/store/index/state calls per behaviour
MaxKills == 1           \* process kills per behaviour
MaxLimit == 3           \* the search command's --limit is in 0..MaxLimit
MaxLexDocs == 2          \* doc_ids given to a LexicalIndex used on its own
MaxLexOps == 4          \* documents and deletions given to it per behaviour
MaxStateDocs == 2       \* doc_ids given to a StateManager used on its own
MaxFilePages == 3       \* pages of the file whose chunks are followed one by one
MaxRows == 2            \* rows added to a LanceVectorStore used on its own
MaxIdLen == 2           \* characters of a doc_id or of a get_metadata argument
MaxWatchEvents == 3     \* watcher events received by one wait_for_changes call
MaxStateCalls == 3      \* calls made to it per behaviour

(***************************************************************************)
(* Program constants.                                                      *)
(***************************************************************************)
max_chunks_per_file == 2   \* IndexOptions.max_chunks_per_file, scaled down from 500
PageStride == 1000         \* global_chunk_idx = page_num * 1000 + i
TicksPerSec == 2           \* disk mtimes are finer than the seconds the state stores
rrf_k == 60             \* the RRF constant of hybrid search

FlatFiles == {"a.txt"}
PagedFiles == {"p.pdf"}
LexDocs == 1..MaxLexDocs
StateDocs == 1..MaxStateDocs
Paths == FlatFiles \cup PagedFiles

\* The order in which discover_files yields the paths (one directory walk).
FileOrder == <<"a.txt", "p.pdf">>

NoCursor == -1

\* PagedExtractor::is_paged: true for the pdf extension only.
is_paged(p) == p \in PagedFiles

RECURSIVE SeqsUpTo(_, _)
SeqsUpTo(S, n) ==
  IF n = 0 THEN {<<>>}
  ELSE LET shorter == SeqsUpTo(S, n - 1)
       IN  shorter \cup {Append(s, x) : s \in {t \in shorter : Len(t) = n - 1}, x \in S}

\* What a file on disk can hold: the chunk count of a flat file's text, or
\* for a paged file the chunk count of each page (0 is an empty page).
FlatContents == 0..MaxFlatChunks
PagedContents == SeqsUpTo(0..MaxPageChunks, MaxPages)

\* SystemTime -> seconds since the epoch (d.as_secs() as i64).
Secs(mtime) == mtime \div TicksPerSec

Range(s) == {s[i] : i \in 1..Len(s)}

\* The subsequence of FileOrder whose paths lie in S.
RECURSIVE InOrder(_, _)
InOrder(order, S) ==
  IF order = <<>> THEN <<>>
  ELSE IF Head(order) \in S THEN <<Head(order)>> \o InOrder(Tail(order), S)
       ELSE InOrder(Tail(order), S)

(***************************************************************************)
(* State Manager (crates/store/src/state.rs).  `files` is the files table  *)
(* (path -> row), `file_docs` the file_docs table (path -> doc_ids).       *)
(* indexed_at is written and never read by the pipeline; it is left out.   *)
(***************************************************************************)
NoRow == [tracked |-> FALSE, file_mtime |-> 0, page_cursor |-> NoCursor, total_pages |-> 0]

\* StateManager::get_file_state
get_file_state(fs, dsk, p) ==
  IF ~fs[p].tracked THEN "NotIndexed"
  ELSE IF ~dsk[p].exists THEN "Deleted"
  ELSE IF Secs(dsk[p].mtime) > fs[p].file_mtime THEN "Modified"
  ELSE "Indexed"

\* StateManager::needs_indexing
needs_indexing(fs, dsk, p) == get_file_state(fs, dsk, p) \in {"NotIndexed", "Modified"}

\* mark_indexed without its DELETE of the old doc_ids.
mark_indexed_keeping(fs, fd, p, mtime, doc_ids, failAt) ==
  [files |-> [fs EXCEPT ![p] = [@ EXCEPT !.tracked = TRUE, !.file_mtime = Secs(mtime)]],
   file_docs |-> [fd EXCEPT ![p] = @ \cup Range(doc_ids)],
   ok |-> failAt = 0]

\* StateManager::mark_indexed.  Three statements outside any transaction:
\* the upsert, the DELETE of the old doc_ids, one INSERT per doc_id.
\* failAt = 0: all succeed; 1: the upsert fails; 2: the DELETE fails;
\* 2 + k: the k-th INSERT fails.
mark_indexed(fs, fd, p, mtime, doc_ids, failAt) ==
  LET upserted == [fs EXCEPT ![p] = [@ EXCEPT !.tracked = TRUE, !.file_mtime = Secs(mtime)]]
      inserted(n) == {doc_ids[i] : i \in 1..n}
  IN  IF failAt = 1 THEN [files |-> fs, file_docs |-> fd, ok |-> FALSE]
      ELSE IF failAt = 2 THEN [files |-> upserted, file_docs |-> fd, ok |-> FALSE]
      ELSE IF failAt > 2
        THEN [files |-> upserted,
              file_docs |-> [fd EXCEPT ![p] = inserted(failAt - 3)], ok |-> FALSE]
      ELSE [files |-> upserted,
            file_docs |-> [fd EXCEPT ![p] = inserted(Len(doc_ids))], ok |-> TRUE]

\* StateManager::mark_page_indexed: upsert the row, append the page's
\* doc_ids, set the cursor to page_num + 1, cleared when it reaches total.
mark_page_indexed(fs, fd, p, mtime, page_num, total, doc_ids, fail) ==
  IF fail THEN [files |-> fs, file_docs |-> fd, ok |-> FALSE]
  ELSE [files |-> [fs EXCEPT ![p] =
                     [tracked |-> TRUE, file_mtime |-> Secs(mtime),
                      page_cursor |-> IF page_num + 1 = total THEN NoCursor ELSE page_num + 1,
                      total_pages |-> total]],
        file_docs |-> [fd EXCEPT ![p] = @ \cup Range(doc_ids)],
        ok |-> TRUE]

\* StateManager::get_resume_page: the cursor, if the row's mtime is `mtime`
\* and a cursor is present; NoCursor otherwise.
get_resume_page(fs, p, mtime) ==
  IF fs[p].tracked /\ fs[p].file_mtime = Secs(mtime)
  THEN fs[p].page_cursor ELSE NoCursor

\* StateManager::get_deleted_files
get_deleted_files(fs, dsk) == {p \in Paths : fs[p].tracked /\ ~dsk[p].exists}

\* StateManager::remove_file
\* remove_file without its DELETE FROM files.
remove_file_docs_only(fs, fd, p) ==
  [files |-> fs, file_docs |-> [fd EXCEPT ![p] = {}], doc_ids |-> fd[p]]

\* StateManager::file_count
file_count(fs) == Cardinality({p \in Paths : fs[p].tracked})

remove_file(fs, fd, p) ==
  [files |-> [fs EXCEPT ![p] = NoRow], file_docs |-> [fd EXCEPT ![p] = {}], doc_ids |-> fd[p]]

(***************************************************************************)
(* Vector Store (crates/store/src/lib.rs).  A row is                       *)
(* [doc_id, file_path, chunk_index]; doc_ids are minted fresh (UUID v4),   *)
(* modelled as the next unused number.                                     *)
(***************************************************************************)
\* VectorStore::add_embeddings_batch: one atomic batch of rows, ids in order.
add_embeddings_batch(rows, last, path, idxs) ==
  [rows |-> rows \cup {[doc_id |-> last + i, file_path |-> path, chunk_index |-> idxs[i]]
                         : i \in 1..Len(idxs)},
   doc_ids |-> [i \in 1..Len(idxs) |-> last + i]]

\* VectorStore::delete_by_doc_ids: delete the matching rows, return how many.
store_delete_by_doc_ids(rows, ids) ==
  [rows |-> {r \in rows : r.doc_id \notin ids},
   removed |-> Cardinality({r \in rows : r.doc_id \in ids})]

DocIds(rows) == {r.doc_id : r \in rows}

(***************************************************************************)
(* Lexical Index (crates/store/src/lexical.rs).  `live` is what the reader *)
(* sees; `staged` is what the writer holds until commit.                   *)
(***************************************************************************)
\* add_documents with the doc_ids paired with the chunks in reverse.
add_documents_reversed(staged, path, doc_ids, idxs, failAt) ==
  LET n == IF failAt = 0 THEN Len(doc_ids) ELSE failAt - 1
  IN  [staged |-> staged \cup {[doc_id |-> doc_ids[Len(doc_ids) + 1 - i], file_path |-> path,
                                chunk_index |-> idxs[i]] : i \in 1..n},
       ok |-> failAt = 0]

\* LexicalIndex::add_documents: stage the documents one by one; failAt = k > 0
\* means the k-th writer.add_document fails, the earlier ones stay staged.
add_documents(staged, path, doc_ids, idxs, failAt) ==
  LET n == IF failAt = 0 THEN Len(doc_ids) ELSE failAt - 1
  IN  [staged |-> staged \cup {[doc_id |-> doc_ids[i], file_path |-> path,
                                chunk_index |-> idxs[i]] : i \in 1..n},
       ok |-> failAt = 0]

\* LexicalIndex::commit: writer.commit, then reader.reload.
commit(live, staged) == live \cup staged

(***************************************************************************)
(* Variables.                                                              *)
(***************************************************************************)
VARIABLES
  disk,             \* path -> [exists, mtime, big, content]
  files,            \* State Manager: files table
  file_docs,        \* State Manager: file_docs table
  vec,              \* Vector Store rows
  minted,           \* doc_ids minted so far
  lexLive,          \* Lexical Index: committed documents
  lexStaged,        \* Lexical Index: documents staged in the writer
  pc,               \* "idle", "phase1", "phase2", "phase3", "pages", "phase4"
  todo1,            \* Phase 1: non-paged files no worker has taken yet
  results,          \* Phase 1: path -> extraction result
  pending2,         \* Phase 2: extraction_results still to process
  pending3,         \* Phase 3: paged_files still to process
  cur,              \* Phase 3: the paged file in the page loop
  files_indexed, files_skipped, files_unchanged,
  errors,           \* IndexResult.errors (paths)
  events,           \* events emitted by the run, by kind
  gcResult,         \* the GcResult of the last garbage_collect
  ops, diskOps, faults, kills,   \* counters bounding the behaviour
  stale,            \* history: path -> doc_ids it owned when found Modified
  reindexed,        \* history: Modified paths whose re-index finished
  failed,           \* history: paths with an extract/embed/store failure
  unmarked,         \* history: paths whose mark_indexed call returned an error
  skipped,          \* history: paths the run counted in files_skipped
  snap,             \* history: the stores when the current operation began
  opFaulty,         \* history: a call of the operation failed
  hist,             \* history: the last two completed operations
  search,           \* the search command: its inputs and its outcome
  index,            \* a LexicalIndex used on its own: writer, reader, answers
  call,             \* a StateManager used on its own: its last call
  watch,            \* a FileWatcher in wait_for_changes
  table,            \* a LanceVectorStore used on its own: rows and last call
  paged,            \* the page loop over one paged file, chunk by chunk
  chunker,          \* one call of chunk_text, loop iteration by loop iteration
  glob,             \* one call of glob_match
  embedder          \* the embedder calls of one run, next to its Phase-1 workers

storeVars == <<files, file_docs, vec, minted, lexLive, lexStaged>>
runVars == <<pc, todo1, results, pending2, pending3, cur, files_indexed, files_skipped,
             files_unchanged, errors, events>>
boundVars == <<ops, diskOps, faults, kills>>
histVars == <<stale, reindexed, failed, unmarked, skipped, snap, opFaulty, hist>>
moreVars == <<chunker, glob, embedder>>
auxVars == <<search, index, call, watch, table, paged, moreVars>>
vars == <<disk, storeVars, runVars, gcResult, boundVars, histVars, auxVars>>

NoResult == [kind |-> "none", chunks |-> 0]
NoCur == [path |-> "", mtime |-> 0, pages |-> <<>>, next |-> 0, checkpointed |-> FALSE]
NoEvents == [FileStarted |-> {}, FileIndexed |-> {}, FileError |-> {},
             FileSkipped |-> {}, FileUnchanged |-> {}, ChunkEmbedded |-> {}, Done |-> 0]
NoGc == [deleted_files |-> 0, modified_files |-> 0, embeddings_removed |-> 0]
\* No search command has run.
NoSearch == [mode |-> "none", limit |-> 0, blank |-> FALSE, vector |-> <<>>,
             lexical |-> <<>>, status |-> "none", results |-> <<>>]
\* A LexicalIndex just opened on an empty directory; nothing asked yet.
Unasked == -1
NoIndex == [reader |-> [d \in LexDocs |-> 0], writer |-> <<>>, log |-> <<>>,
            count |-> Unasked, query |-> 0, hits |-> Unasked]
\* No StateManager call has been made.
NoCall == [op |-> "none", path |-> "", mtime |-> 0, doc_ids |-> <<>>, ok |-> TRUE,
           old |-> {}, returned |-> {}, n |-> 0]
\* A FileWatcher on which wait_for_changes has not been called.
NoWatch == [status |-> "idle", ignore_patterns |-> {}, modified |-> {}, deleted |-> {},
            seen |-> {}, received |-> 0, batch |-> [modified |-> {}, deleted |-> {}]]
\* A LanceVectorStore just opened on an empty directory: no table yet.
NoTable == [rows |-> {}, op |-> "none", arg |-> <<>>, len |-> 0, status |-> "none",
            returned |-> {}, before |-> {}]
\* No paged file is in the page loop.
NoPaged == [pages |-> <<>>, next |-> 0, stored |-> {}, status |-> "none"]
\* No call of chunk_text or of glob_match is going on.
NoChunker == [text |-> <<>>, max_len |-> 0, status |-> "none", pending |-> <<>>,
              current |-> <<>>, chunks |-> <<>>, chars |-> <<>>, start |-> 0,
              local |-> <<>>, caller |-> "none"]
NoGlob == [pattern |-> <<>>, text |-> <<>>, status |-> "none", result |-> FALSE]
\* No run is followed call by call.
MaxWorkers == 2
MaxBatches == 2
Workers == 1..MaxWorkers
NoEmbedder == [phase |-> "none", workers |-> [w \in Workers |-> "idle"],
               left2 |-> 0, left3 |-> 0, call |-> "none", model |-> "free",
               in_model |-> {}]
OthersIdle == chunker = NoChunker /\ glob = NoGlob /\ embedder = NoEmbedder
Stores == [files |-> files, file_docs |-> file_docs, vec |-> vec,
           lex |-> lexLive \cup lexStaged, minted |-> minted]

\* The program right after construction: empty stores, no run begun.
Fresh ==
  /\ files = [p \in Paths |-> NoRow]
  /\ file_docs = [p \in Paths |-> {}]
  /\ vec = {}
  /\ minted = 0
  /\ lexLive = {}
  /\ lexStaged = {}
  /\ pc = "idle"
  /\ todo1 = {}
  /\ results = [p \in FlatFiles |-> NoResult]
  /\ pending2 = <<>>
  /\ pending3 = <<>>
  /\ cur = NoCur
  /\ files_indexed = 0
  /\ files_skipped = 0
  /\ files_unchanged = 0
  /\ errors = <<>>
  /\ events = NoEvents
  /\ gcResult = NoGc
  /\ ops = 0 /\ diskOps = 0 /\ faults = 0 /\ kills = 0
  /\ stale = [p \in Paths |-> {}]
  /\ reindexed = {}
  /\ failed = {}
  /\ unmarked = {}
  /\ skipped = {}
  /\ snap = Stores
  /\ opFaulty = FALSE
  /\ hist = <<>>

Init ==
  /\ disk \in {[p \in Paths |->
                   [exists |-> TRUE, mtime |-> TicksPerSec - 1, big |-> FALSE,
                    content |-> IF is_paged(p) THEN pages[p] ELSE chunks[p]]] :
                 chunks \in [FlatFiles -> FlatContents],
                 pages \in [PagedFiles -> PagedContents]}
  /\ Fresh
  /\ search = NoSearch
  /\ index = NoIndex
  /\ call = NoCall
  /\ watch = NoWatch
  /\ table = NoTable
  /\ paged = NoPaged
  /\ OthersIdle

(***************************************************************************)
(* The environment: the disk changes under the program at any time.        *)
(***************************************************************************)
Dirty(h) == [i \in 1..Len(h) |-> [h[i] EXCEPT !.clean = FALSE]]

DiskChange(p, file) ==
  /\ pc = "idle"
  /\ diskOps < MaxDiskOps
  /\ disk' = [disk EXCEPT ![p] = file]
  /\ diskOps' = diskOps + 1
  /\ hist' = Dirty(hist)
  /\ UNCHANGED <<storeVars, runVars, gcResult, ops, faults, kills,
                 stale, reindexed, failed, unmarked, skipped, snap, opFaulty, auxVars>>

\* A write to the file (or `touch`): the mtime moves forward.
TouchFile(p) ==
  /\ disk[p].exists
  /\ DiskChange(p, [disk[p] EXCEPT !.mtime = @ + 1])

DeleteFile(p) ==
  /\ disk[p].exists
  /\ DiskChange(p, [disk[p] EXCEPT !.exists = FALSE])

\* A write that leaves the file larger than max_file_size_bytes.
GrowFile(p) ==
  /\ disk[p].exists
  /\ ~disk[p].big
  /\ DiskChange(p, [disk[p] EXCEPT !.big = TRUE, !.mtime = @ + 1])

(***************************************************************************)
(* History of completed operations (for the properties only).              *)
(***************************************************************************)
NoEntry == [op |-> "none", ok |-> TRUE, clean |-> TRUE,
            faulty |-> FALSE, same |-> TRUE,
            deleted |-> {}, modified |-> {}, old |-> [p \in Paths |-> {}],
            gc |-> NoGc, indexed |-> 0, unchanged |-> 0, firstId |-> 0,
            path |-> "", page |-> NoCursor, fatal |-> "none"]

Remember(h, e) == IF Len(h) < 2 THEN Append(h, e) ELSE <<h[2], e>>

(***************************************************************************)
(* Indexer::garbage_collect (crates/nexus_core/src/lib.rs).  The whole     *)
(* call is one step.  failAt = k > 0: the k-th Vector Store                *)
(* delete_by_doc_ids returns an error and `?` ends the call there.         *)
(***************************************************************************)
\* StateManager::get_all_files: the tracked files with their computed state.
get_all_files(fs, fd, dsk) ==
  LET tracked == InOrder(FileOrder, {p \in Paths : fs[p].tracked})
  IN  [i \in 1..Len(tracked) |->
         [path |-> tracked[i],
          file_state |-> IF ~dsk[tracked[i]].exists THEN "Deleted"
                         ELSE IF Secs(dsk[tracked[i]].mtime) > fs[tracked[i]].file_mtime
                              THEN "Modified" ELSE "Indexed",
          doc_ids |-> fd[tracked[i]]]]

\* 1. Clean up embeddings for deleted files.
RECURSIVE gc_deleted(_, _, _)
gc_deleted(paths, st, failAt) ==
  IF paths = <<>> \/ ~st.ok THEN st
  ELSE LET rm == remove_file(st.files, st.file_docs, Head(paths))
           removed == [st EXCEPT !.files = rm.files, !.file_docs = rm.file_docs]
           del == store_delete_by_doc_ids(st.vec, rm.doc_ids)
       IN  IF rm.doc_ids = {} THEN gc_deleted(Tail(paths), removed, failAt)
           ELSE IF st.calls + 1 = failAt
             THEN [removed EXCEPT !.ok = FALSE, !.calls = @ + 1]
           ELSE gc_deleted(Tail(paths),
                  [removed EXCEPT !.vec = del.rows, !.calls = @ + 1,
                     !.result.embeddings_removed = @ + del.removed,
                     !.result.deleted_files = @ + 1],
                  failAt)

\* Step 2 with the record of each modified file removed like a deleted one.
RECURSIVE gc_modified_forgetting(_, _, _)
gc_modified_forgetting(infos, st, failAt) ==
  IF infos = <<>> \/ ~st.ok THEN st
  ELSE LET info == Head(infos)
           rm == remove_file(st.files, st.file_docs, info.path)
           del == store_delete_by_doc_ids(st.vec, info.doc_ids)
       IN  IF ~(info.file_state = "Modified" /\ info.doc_ids # {})
             THEN gc_modified_forgetting(Tail(infos), st, failAt)
           ELSE IF st.calls + 1 = failAt
             THEN [st EXCEPT !.ok = FALSE, !.calls = @ + 1]
           ELSE gc_modified_forgetting(Tail(infos),
                  [st EXCEPT !.files = rm.files, !.file_docs = rm.file_docs,
                     !.vec = del.rows, !.calls = @ + 1,
                     !.result.embeddings_removed = @ + del.removed,
                     !.result.modified_files = @ + 1],
                  failAt)

\* 2. Clean up old embeddings for modified files.
RECURSIVE gc_modified(_, _, _)
gc_modified(infos, st, failAt) ==
  IF infos = <<>> \/ ~st.ok THEN st
  ELSE LET info == Head(infos)
           del == store_delete_by_doc_ids(st.vec, info.doc_ids)
       IN  IF ~(info.file_state = "Modified" /\ info.doc_ids # {})
             THEN gc_modified(Tail(infos), st, failAt)
           ELSE IF st.calls + 1 = failAt
             THEN [st EXCEPT !.ok = FALSE, !.calls = @ + 1]
           ELSE gc_modified(Tail(infos),
                  [st EXCEPT !.vec = del.rows, !.calls = @ + 1,
                     !.result.embeddings_removed = @ + del.removed,
                     !.result.modified_files = @ + 1],
                  failAt)

garbage_collect(fs, fd, rows, dsk, failAt) ==
  LET st0 == [files |-> fs, file_docs |-> fd, vec |-> rows, result |-> NoGc,
              calls |-> 0, ok |-> TRUE]
      st1 == gc_deleted(InOrder(FileOrder, get_deleted_files(fs, dsk)), st0, failAt)
  IN  gc_modified(get_all_files(st1.files, st1.file_docs, dsk), st1, failAt)

GarbageCollect ==
  /\ pc = "idle"
  /\ ops < MaxOps
  /\ \E failAt \in 0..garbage_collect(files, file_docs, vec, disk, 0).calls :
       LET st == garbage_collect(files, file_docs, vec, disk, failAt)
           gone == get_deleted_files(files, disk)
           modif == {p \in Paths : get_file_state(files, disk, p) = "Modified"}
       IN  /\ failAt > 0 => faults < MaxFaults
           /\ faults' = IF failAt > 0 THEN faults + 1 ELSE faults
           /\ files' = st.files
           /\ file_docs' = st.file_docs
           /\ vec' = st.vec
           /\ gcResult' = IF st.ok THEN st.result ELSE NoGc
           /\ hist' = Remember(hist,
                [NoEntry EXCEPT !.op = "gc", !.ok = st.ok, !.faulty = failAt > 0,
                   !.same = (st.files = files /\ st.file_docs = file_docs /\ st.vec = vec),
                   !.deleted = gone, !.modified = modif,
                   !.old = [p \in Paths |-> IF p \in gone \cup modif THEN file_docs[p] ELSE {}],
                   !.gc = IF st.ok THEN st.result ELSE NoGc])
  /\ ops' = ops + 1
  /\ stale' = [p \in Paths |-> {}]
  /\ reindexed' = {}
  /\ failed' = {}
  /\ unmarked' = {}
  /\ skipped' = {}
  /\ UNCHANGED <<disk, minted, lexLive, lexStaged, runVars, diskOps, kills,
                 snap, opFaulty, auxVars>>

(***************************************************************************)
(* Indexer::run_with_progress (crates/nexus_core/src/lib.rs).              *)
(***************************************************************************)
Emit(ev, kind, p) == [ev EXCEPT ![kind] = @ \cup {p}]

\* The run going on with the paged files before the results left for Phase 2.
ContinuePagedFirst(p2, p3) ==
  IF p3 # <<>> THEN "phase3" ELSE IF p2 # <<>> THEN "phase2" ELSE "phase4"

\* Where the run goes on: Phase 2 while results are left, then Phase 3
\* while paged files are left, then Phase 4.
Continue(p2, p3) ==
  IF p2 # <<>> THEN "phase2" ELSE IF p3 # <<>> THEN "phase3" ELSE "phase4"

\* discover_files: the supported files that exist under the root.
discover_files(dsk) == {p \in Paths : dsk[p].exists}

\* The failures one file's (or one page's) calls can meet: embed_batch,
\* add_embeddings_batch, add_documents (at its k-th document), the state
\* write (at its k-th statement).  A failed call ends the later ones.
Plans(n, marks) ==
  {pl \in [embed : BOOLEAN, add : BOOLEAN, lex : 0..n, mark : 0..marks] :
     /\ pl.embed => ~pl.add
     /\ (pl.embed \/ pl.add) => (pl.lex = 0 /\ pl.mark = 0)}

Cost(pl) == (IF pl.embed THEN 1 ELSE 0) + (IF pl.add THEN 1 ELSE 0)
            + (IF pl.lex > 0 THEN 1 ELSE 0) + (IF pl.mark > 0 THEN 1 ELSE 0)

RunStart ==
  /\ pc = "idle"
  /\ ops < MaxOps
  /\ LET found == discover_files(disk)
         paged_files == InOrder(FileOrder, {p \in found : is_paged(p)})
         non_paged_files == {p \in found : ~is_paged(p)}
     IN  /\ todo1' = non_paged_files
         /\ pending3' = paged_files
         /\ pc' = IF non_paged_files # {} THEN "phase1" ELSE Continue(<<>>, paged_files)
  /\ results' = [p \in FlatFiles |-> NoResult]
  /\ pending2' = <<>>
  /\ cur' = NoCur
  /\ files_indexed' = 0 /\ files_skipped' = 0 /\ files_unchanged' = 0
  /\ errors' = <<>>
  /\ events' = NoEvents
  /\ ops' = ops + 1
  /\ stale' = [p \in Paths |-> {}]
  /\ reindexed' = {}
  /\ failed' = {}
  /\ unmarked' = {}
  /\ skipped' = {}
  /\ snap' = Stores
  /\ opFaulty' = FALSE
  /\ UNCHANGED <<disk, storeVars, gcResult, diskOps, faults, kills, hist, auxVars>>

\* The chunk-count policy with the comparison off by one.
AtLeastMaxChunks(n) == n >= max_chunks_per_file

\* The chunk-count policy of Phase 1 (line 218): chunks.len() > max_chunks.
exceeds_max_chunks(n) == n > max_chunks_per_file

\* Phase 1: one worker takes one non-paged file (lines 189-232).
Phase1Worker(p) ==
  /\ pc = "phase1"
  /\ p \in todo1
  /\ \E fault \in BOOLEAN :
       LET too_big == disk[p].exists /\ disk[p].big
           unchanged == ~too_big /\ ~needs_indexing(files, disk, p)
           extracting == ~too_big /\ ~unchanged
           extract_err == extracting /\ (~disk[p].exists \/ fault)
           chunks == disk[p].content
           too_many == extracting /\ ~extract_err /\ exceeds_max_chunks(chunks)
           result == IF extract_err THEN [kind |-> "err", chunks |-> 0]
                     ELSE IF extracting /\ ~too_many THEN [kind |-> "ok", chunks |-> chunks]
                     ELSE NoResult
           res == [results EXCEPT ![p] = result]
           left == todo1 \ {p}
           out == InOrder(FileOrder, {q \in FlatFiles : res[q].kind # "none"})
       IN  /\ fault => (faults < MaxFaults /\ extracting /\ disk[p].exists)
           /\ faults' = IF fault THEN faults + 1 ELSE faults
           /\ opFaulty' = (opFaulty \/ fault)
           /\ files_skipped' = IF too_big \/ too_many THEN files_skipped + 1 ELSE files_skipped
           /\ skipped' = IF too_big \/ too_many THEN skipped \cup {p} ELSE skipped
           /\ files_unchanged' = IF unchanged THEN files_unchanged + 1 ELSE files_unchanged
           /\ results' = res
           /\ todo1' = left
           /\ pending2' = IF left = {} THEN out ELSE pending2
           /\ pc' = IF left = {} THEN Continue(out, pending3) ELSE "phase1"
           /\ stale' = IF extracting /\ get_file_state(files, disk, p) = "Modified"
                       THEN [stale EXCEPT ![p] = file_docs[p]] ELSE stale
           /\ failed' = IF extract_err THEN failed \cup {p} ELSE failed
  /\ UNCHANGED <<disk, storeVars, pending3, cur, files_indexed, errors, events, gcResult,
                 ops, diskOps, kills, reindexed, unmarked, snap, hist, auxVars>>

\* chunk_index of the i-th chunk: i for a flat file, page_num * 1000 + i for a page.
ChunkIdxs(n, base) == [i \in 1..n |-> base + (i - 1)]

\* The ChunkEmbedded(path, chunk index, doc_id) events of one stored batch
\* (lines 298-301, 464-467).
ChunkEmbedded(ev, p, doc_ids, idxs) ==
  [ev EXCEPT !.ChunkEmbedded =
     @ \cup {[path |-> p, chunk_index |-> idxs[i], doc_id |-> doc_ids[i]] :
               i \in 1..Len(doc_ids)}]

\* Phase 2: one extraction result is embedded, stored and recorded (lines 240-336).
Phase2File ==
  /\ pc = "phase2"
  /\ pending2 # <<>>
  /\ LET p == Head(pending2)
         n == results[p].chunks
         is_err == results[p].kind = "err"
     IN  \E pl \in Plans(n, n + 2) :
           LET stored == ~is_err /\ n > 0 /\ ~pl.embed /\ ~pl.add
               batch == add_embeddings_batch(vec, minted, p, ChunkIdxs(n, 0))
               lex == add_documents(lexStaged, p, batch.doc_ids, ChunkIdxs(n, 0), pl.lex)
               marking == stored /\ disk[p].exists
               mark == mark_indexed(files, file_docs, p, disk[p].mtime, batch.doc_ids, pl.mark)
               file_error == is_err \/ (~is_err /\ n > 0 /\ (pl.embed \/ pl.add))
               ev1 == IF is_err THEN events ELSE Emit(events, "FileStarted", p)
               ev2 == IF file_error \/ (stored /\ ~lex.ok) THEN Emit(ev1, "FileError", p) ELSE ev1
               ev3 == IF is_err THEN ev2 ELSE Emit(ev2, "FileIndexed", p)
               ev4 == IF stored THEN ChunkEmbedded(ev3, p, batch.doc_ids, ChunkIdxs(n, 0))
                      ELSE ev3
           IN  /\ Cost(pl) > 0 => (~is_err /\ n > 0 /\ faults + Cost(pl) <= MaxFaults)
               /\ pl.mark > 0 => marking
               /\ faults' = faults + Cost(pl)
               /\ opFaulty' = (opFaulty \/ Cost(pl) > 0)
               /\ vec' = IF stored THEN batch.rows ELSE vec
               /\ minted' = IF stored THEN minted + n ELSE minted
               /\ lexStaged' = IF stored THEN lex.staged ELSE lexStaged
               /\ files' = IF marking THEN mark.files ELSE files
               /\ file_docs' = IF marking THEN mark.file_docs ELSE file_docs
               /\ files_indexed' = IF stored THEN files_indexed + 1 ELSE files_indexed
               /\ errors' = IF file_error THEN Append(errors, p) ELSE errors
               /\ events' = ev4
               /\ failed' = IF ~is_err /\ n > 0 /\ (pl.embed \/ pl.add)
                            THEN failed \cup {p} ELSE failed
               /\ unmarked' = IF marking /\ ~mark.ok THEN unmarked \cup {p} ELSE unmarked
               /\ reindexed' = IF stored THEN reindexed \cup {p} ELSE reindexed
               /\ pending2' = Tail(pending2)
               /\ pc' = Continue(Tail(pending2), pending3)
  /\ UNCHANGED <<disk, lexLive, todo1, results, pending3, cur, files_skipped,
                 files_unchanged, gcResult, ops, diskOps, kills, stale, skipped, snap, hist,
                 auxVars>>

\* Phase 3: the next paged file, up to its page loop (lines 339-397).
Phase3File ==
  /\ pc = "phase3"
  /\ pending3 # <<>>
  /\ LET p == Head(pending3)
         rest == Tail(pending3)
     IN  \E fault \in BOOLEAN :
           LET too_big == disk[p].exists /\ disk[p].big
               no_mtime == ~too_big /\ ~disk[p].exists
               unchanged == ~too_big /\ ~no_mtime /\ ~needs_indexing(files, disk, p)
               started == ~too_big /\ ~no_mtime /\ ~unchanged
               mtime == disk[p].mtime
               resume == get_resume_page(files, p, mtime)
               resume_page == IF resume = NoCursor THEN 0 ELSE resume
               pages == disk[p].content
               extract_err == started /\ fault
               no_pages == started /\ ~extract_err /\ pages = <<>>
               looping == started /\ ~extract_err /\ ~no_pages /\ resume_page < Len(pages)
               skipped_all == started /\ ~extract_err /\ ~no_pages /\ ~looping
               ev1 == IF started THEN Emit(events, "FileStarted", p) ELSE events
               ev2 == IF extract_err THEN Emit(ev1, "FileError", p) ELSE ev1
               ev3 == IF no_pages \/ skipped_all THEN Emit(ev2, "FileIndexed", p) ELSE ev2
           IN  /\ fault => (faults < MaxFaults /\ started)
               /\ faults' = IF fault THEN faults + 1 ELSE faults
               /\ opFaulty' = (opFaulty \/ fault)
               /\ files_skipped' = IF too_big THEN files_skipped + 1 ELSE files_skipped
               /\ skipped' = IF too_big THEN skipped \cup {p} ELSE skipped
               /\ files_unchanged' = IF unchanged THEN files_unchanged + 1 ELSE files_unchanged
               /\ files_indexed' = IF skipped_all THEN files_indexed + 1 ELSE files_indexed
               /\ errors' = IF no_mtime \/ extract_err THEN Append(errors, p) ELSE errors
               /\ events' = ev3
               /\ failed' = IF extract_err THEN failed \cup {p} ELSE failed
               /\ stale' = IF started /\ get_file_state(files, disk, p) = "Modified"
                           THEN [stale EXCEPT ![p] = file_docs[p]] ELSE stale
               /\ reindexed' = IF skipped_all THEN reindexed \cup {p} ELSE reindexed
               /\ cur' = IF looping
                         THEN [path |-> p, mtime |-> mtime, pages |-> pages,
                               next |-> resume_page, checkpointed |-> FALSE]
                         ELSE NoCur
               /\ pending3' = rest
               /\ pc' = IF looping THEN "pages" ELSE Continue(<<>>, rest)
  /\ UNCHANGED <<disk, storeVars, todo1, results, pending2, gcResult,
                 ops, diskOps, kills, unmarked, snap, hist, auxVars>>

\* Phase 3: one page of the page loop (lines 400-493); after the last page
\* the file is counted and FileIndexed is emitted (lines 495-496).
Phase3Page ==
  /\ pc = "pages"
  /\ LET p == cur.path
         page_num == cur.next
         total_pages == Len(cur.pages)
         n == cur.pages[page_num + 1]
         idxs == ChunkIdxs(n, page_num * PageStride)
         last == page_num + 1 = total_pages
     IN  \E pl \in Plans(n, 1) :
           LET stored == n > 0 /\ ~pl.embed /\ ~pl.add
               batch == add_embeddings_batch(vec, minted, p, idxs)
               lex == add_documents(lexStaged, p, batch.doc_ids, idxs, pl.lex)
               mark == mark_page_indexed(files, file_docs, p, cur.mtime, page_num,
                                         total_pages, batch.doc_ids, pl.mark > 0)
               file_error == n > 0 /\ (pl.embed \/ pl.add)
               ev1 == IF file_error \/ (stored /\ ~lex.ok)
                      THEN Emit(events, "FileError", p) ELSE events
               ev2 == IF last THEN Emit(ev1, "FileIndexed", p) ELSE ev1
               ev3 == IF stored THEN ChunkEmbedded(ev2, p, batch.doc_ids, idxs) ELSE ev2
           IN  /\ Cost(pl) > 0 => (n > 0 /\ faults + Cost(pl) <= MaxFaults)
               /\ faults' = faults + Cost(pl)
               /\ opFaulty' = (opFaulty \/ Cost(pl) > 0)
               /\ vec' = IF stored THEN batch.rows ELSE vec
               /\ minted' = IF stored THEN minted + n ELSE minted
               /\ lexStaged' = IF stored THEN lex.staged ELSE lexStaged
               /\ files' = IF stored THEN mark.files ELSE files
               /\ file_docs' = IF stored THEN mark.file_docs ELSE file_docs
               /\ errors' = IF file_error THEN Append(errors, p) ELSE errors
               /\ events' = ev3
               /\ failed' = IF file_error THEN failed \cup {p} ELSE failed
               /\ unmarked' = unmarked
               /\ files_indexed' = IF last THEN files_indexed + 1 ELSE files_indexed
               /\ reindexed' = IF last THEN reindexed \cup {p} ELSE reindexed
               /\ cur' = IF last THEN NoCur
                         ELSE [cur EXCEPT !.next = page_num + 1,
                                          !.checkpointed = stored /\ mark.ok]
               /\ pc' = IF last THEN Continue(<<>>, pending3) ELSE "pages"
  /\ UNCHANGED <<disk, lexLive, todo1, results, pending2, pending3, files_skipped,
                 files_unchanged, gcResult, ops, diskOps, kills, stale, skipped, snap, hist,
                 auxVars>>

\* What the history keeps of a run that ended.
RunEntry(fault) ==
  [NoEntry EXCEPT !.op = "run", !.ok = (fault = "none"),
     !.faulty = opFaulty', !.same = (Stores' = snap), !.old = stale,
     !.indexed = files_indexed, !.unchanged = files_unchanged,
     !.firstId = snap.minted, !.fatal = fault]

\* Phase 4 as it would be with Done emitted before save and commit.
Phase4DoneFirst ==
  /\ pc = "phase4"
  /\ pc' = "idle"
  /\ UNCHANGED <<disk, files, file_docs, vec, minted, todo1, results, pending2, pending3,
                 cur, files_indexed, files_skipped, files_unchanged, errors, gcResult,
                 ops, diskOps, kills, stale, reindexed, failed, unmarked, skipped, snap, auxVars>>
  /\ \E fault \in {"none", "save", "commit"} :
       /\ fault # "none" => faults < MaxFaults
       /\ faults' = IF fault # "none" THEN faults + 1 ELSE faults
       /\ opFaulty' = (opFaulty \/ fault # "none")
       /\ lexLive' = IF fault = "none" THEN commit(lexLive, lexStaged) ELSE lexLive
       /\ lexStaged' = IF fault = "none" THEN {} ELSE lexStaged
       /\ events' = [events EXCEPT !.Done = @ + 1]
       /\ hist' = Remember(hist, RunEntry(fault))

\* Phase 4: store.save, lexical.commit, Done (lines 499-516).  A failing
\* save or commit ends the run with the error.
Phase4 ==
  /\ pc = "phase4"
  /\ pc' = "idle"
  /\ UNCHANGED <<disk, files, file_docs, vec, minted, todo1, results, pending2, pending3,
                 cur, files_indexed, files_skipped, files_unchanged, errors, gcResult,
                 ops, diskOps, kills, stale, reindexed, failed, unmarked, skipped, snap, auxVars>>
  /\ \E fault \in {"none", "save", "commit"} :
       /\ fault # "none" => faults < MaxFaults
       /\ faults' = IF fault # "none" THEN faults + 1 ELSE faults
       /\ opFaulty' = (opFaulty \/ fault # "none")
       /\ lexLive' = IF fault = "none" THEN commit(lexLive, lexStaged) ELSE lexLive
       /\ lexStaged' = IF fault = "none" THEN {} ELSE lexStaged
       /\ events' = IF fault = "none" THEN [events EXCEPT !.Done = @ + 1] ELSE events
       /\ hist' = Remember(hist, RunEntry(fault))

\* The process is killed in the middle of a run: what the Lexical Index
\* writer had staged is lost, the Vector Store and the State Manager keep
\* what was written.
Kill ==
  /\ pc # "idle"
  /\ kills < MaxKills
  /\ kills' = kills + 1
  /\ pc' = "idle"
  /\ lexStaged' = {}
  /\ todo1' = {}
  /\ results' = [p \in FlatFiles |-> NoResult]
  /\ pending2' = <<>>
  /\ pending3' = <<>>
  /\ cur' = NoCur
  /\ hist' = Remember(hist,
       [NoEntry EXCEPT !.op = "killed", !.ok = FALSE, !.faulty = opFaulty,
          !.old = stale, !.firstId = snap.minted,
          !.path = IF pc = "pages" /\ cur.checkpointed THEN cur.path ELSE "",
          !.page = IF pc = "pages" /\ cur.checkpointed THEN cur.next - 1 ELSE NoCursor])
  /\ UNCHANGED <<disk, files, file_docs, vec, minted, lexLive, files_indexed, files_skipped,
                 files_unchanged, errors, events, gcResult, ops, diskOps, faults,
                 stale, reindexed, failed, unmarked, skipped, snap, opFaulty, auxVars>>

Next ==
  \/ \E p \in Paths : TouchFile(p)
  \/ \E p \in Paths : DeleteFile(p)
  \/ \E p \in Paths : GrowFile(p)
  \/ GarbageCollect
  \/ RunStart
  \/ \E p \in FlatFiles : Phase1Worker(p)
  \/ Phase2File
  \/ Phase3File
  \/ Phase3Page
  \/ Phase4
  \/ Kill

Spec == Init /\ [][Next]_vars

\* The same program started on a longer paged file (MaxPages + 1 pages) next
\* to a flat file of one chunk.
DeepInit ==
  /\ disk \in {[p \in Paths |->
                   [exists |-> TRUE, mtime |-> TicksPerSec - 1, big |-> FALSE,
                    content |-> IF is_paged(p) THEN pages ELSE 1]] :
                 pages \in {c \in SeqsUpTo(0..MaxPageChunks, MaxPages + 1) :
                              Len(c) = MaxPages + 1}}
  /\ Fresh
  /\ search = NoSearch
  /\ index = NoIndex
  /\ call = NoCall
  /\ watch = NoWatch
  /\ table = NoTable
  /\ paged = NoPaged
  /\ OthersIdle

DeepSpec == DeepInit /\ [][Next]_vars

\* The same program on one flat file that is written while the run has its
\* extracted chunks in hand: between the worker of Phase 1 (line 212) and
\* the mark_indexed of Phase 2 (lines 303-312).  The write is a whole second
\* later than the last one and changes the number of chunks.
RaceInit ==
  /\ disk \in {[p \in Paths |->
                   [exists |-> ~is_paged(p), mtime |-> TicksPerSec - 1, big |-> FALSE,
                    content |-> IF is_paged(p) THEN <<>> ELSE chunks]] :
                 chunks \in FlatContents}
  /\ Fresh
  /\ search = NoSearch
  /\ index = NoIndex
  /\ call = NoCall
  /\ watch = NoWatch
  /\ table = NoTable
  /\ paged = NoPaged
  /\ OthersIdle

WriteDuringRun(p) ==
  /\ pc = "phase2"
  /\ p \in Range(pending2)
  /\ disk[p].exists
  /\ diskOps < MaxDiskOps
  /\ \E chunks \in FlatContents \ {disk[p].content} :
       disk' = [disk EXCEPT ![p].mtime = @ + TicksPerSec, ![p].content = chunks]
  /\ diskOps' = diskOps + 1
  /\ hist' = Dirty(hist)
  /\ UNCHANGED <<storeVars, runVars, gcResult, ops, faults, kills,
                 stale, reindexed, failed, unmarked, skipped, snap, opFaulty, auxVars>>

RaceNext ==
  \/ RunStart
  \/ \E p \in FlatFiles : Phase1Worker(p)
  \/ \E p \in FlatFiles : WriteDuringRun(p)
  \/ Phase2File
  \/ Phase4

RaceSpec == RaceInit /\ [][RaceNext]_vars

(***************************************************************************)
(* The search command (crates/cli/src/main.rs, Commands::Search; the UI's  *)
(* search command in ui/src-tauri/src/lib.rs is the same algorithm).       *)
(* The two indexes are given by what they rank for the query: `vector` is  *)
(* the Vector Store's full ranking (nearest first), `lexical` the Lexical  *)
(* Index's full ranking (best BM25 first); a doc_id occurs once in each.   *)
(***************************************************************************)
VectorDocs == {"A", "B", "C", "D"}
LexicalDocs == {"A", "B", "E", "F"}

RECURSIVE Rankings(_)
Rankings(S) ==
  {<<>>} \cup UNION {{<<d>> \o r : r \in Rankings(S \ {d})} : d \in S}

\* Iterator::take(n).
take(s, n) == SubSeq(s, 1, IF n < Len(s) THEN n ELSE Len(s))

\* LanceVectorStore::search: no table, no results; else the top_k nearest.
\* What LanceDB answers to limit(0) is not fixed by this repository's
\* code: it returns nothing or rejects the query.
vector_search(ranking, top_k) ==
  IF ranking = <<>> THEN {[status |-> "ok", hits |-> <<>>]}
  ELSE IF top_k = 0
    THEN {[status |-> "ok", hits |-> <<>>], [status |-> "error", hits |-> <<>>]}
  ELSE {[status |-> "ok", hits |-> take(ranking, top_k)]}

\* LexicalIndex::search: a blank query returns nothing; otherwise the query
\* runs with TopDocs::with_limit(top_k), which panics when top_k is 0.
lexical_search(ranking, blank, top_k) ==
  IF blank THEN [status |-> "ok", hits |-> <<>>]
  ELSE IF top_k = 0 THEN [status |-> "panic", hits |-> <<>>]
  ELSE [status |-> "ok", hits |-> take(ranking, top_k)]

\* Scores are kept as fractions.  The code adds f32 values; for the ranks
\* reached here two different sums differ by more than 1e-5, far above f32
\* rounding, so the order of the f32 scores is the order of the fractions.
Zero == [num |-> 0, den |-> 1]
Plus(x, y) == [num |-> x.num * y.den + y.num * x.den, den |-> x.den * y.den]
Less(x, y) == x.num * y.den < y.num * x.den

\* A contribution that forgets the rank.
rrf_score_of_first(rank) == [num |-> 1, den |-> rrf_k + 1]

\* let rrf_score = 1.0 / (k + rank as f32 + 1.0), rank counted from 0.
rrf_score(rank) == [num |-> 1, den |-> rrf_k + rank + 1]

\* One pass over a result list: entry.0 += rrf_score.
RECURSIVE add_results(_, _, _)
add_results(scores, hits, rank) ==
  IF hits = <<>> THEN scores
  ELSE add_results([scores EXCEPT ![Head(hits)] = Plus(@, rrf_score(rank))],
                   Tail(hits), rank + 1)

\* doc_scores after the vector results and then the lexical results.
doc_scores(vector_results, lexical_results) ==
  LET docs == Range(vector_results) \cup Range(lexical_results)
  IN  add_results(add_results([d \in docs |-> Zero], vector_results, 0),
                  lexical_results, 0)

\* sorted.sort_by(score descending) over the HashMap's entries: the map
\* iterates in an arbitrary order and the sort is stable, so equal scores
\* come out in any order.
RECURSIVE sorted(_, _)
sorted(S, scores) ==
  IF S = {} THEN {<<>>}
  ELSE UNION {{<<d>> \o r : r \in sorted(S \ {d}, scores)} :
                d \in {m \in S : \A e \in S : ~Less(scores[m], scores[e])}}

\* The hybrid arm after both searches returned: fuse, sort, take(limit).
hybrid(vector_results, lexical_results, limit) ==
  LET scores == doc_scores(vector_results, lexical_results)
  IN  {take(r, limit) : r \in sorted(DOMAIN scores, scores)}

Modes == {"semantic", "lexical", "hybrid"}

\* A search command about to run: its arguments and the two indexes.
SearchInit ==
  /\ disk = [p \in Paths |->
               [exists |-> FALSE, mtime |-> TicksPerSec - 1, big |-> FALSE,
                content |-> IF is_paged(p) THEN <<>> ELSE 0]]
  /\ Fresh
  /\ search \in {[NoSearch EXCEPT !.mode = m, !.limit = l, !.blank = b,
                                   !.vector = v, !.lexical = x, !.status = "ready"] :
                   m \in Modes, l \in 0..MaxLimit, b \in BOOLEAN,
                   v \in Rankings(VectorDocs), x \in Rankings(LexicalDocs)}
  /\ index = NoIndex
  /\ call = NoCall
  /\ watch = NoWatch
  /\ table = NoTable
  /\ paged = NoPaged
  /\ OthersIdle

Answer(status, hits) == [search EXCEPT !.status = status, !.results = hits]

SearchFrame ==
  UNCHANGED <<disk, storeVars, runVars, gcResult, boundVars, histVars, index, call, watch, table, paged, moreVars>>

\* "semantic" | "vector" (lines 310-322).
SemanticSearch ==
  /\ search.status = "ready"
  /\ search.mode = "semantic"
  /\ \E v \in vector_search(search.vector, search.limit) :
       search' = Answer(v.status, v.hits)
  /\ SearchFrame

\* "lexical" | "keyword" (lines 323-344).
LexicalSearch ==
  /\ search.status = "ready"
  /\ search.mode = "lexical"
  /\ LET l == lexical_search(search.lexical, search.blank, search.limit)
     IN  search' = Answer(l.status, l.hits)
  /\ SearchFrame

\* "hybrid" | _ (lines 345-395).
HybridSearch ==
  /\ search.status = "ready"
  /\ search.mode = "hybrid"
  /\ \E v \in vector_search(search.vector, search.limit * 2) :
       LET l == lexical_search(search.lexical, search.blank, search.limit * 2)
       IN  IF v.status # "ok" THEN search' = Answer(v.status, <<>>)
           ELSE IF l.status # "ok" THEN search' = Answer(l.status, <<>>)
           ELSE \E r \in hybrid(v.hits, l.hits, search.limit) :
                  search' = Answer("ok", r)
  /\ SearchFrame

SearchNext ==
  \/ SemanticSearch
  \/ LexicalSearch
  \/ HybridSearch

SearchSpec == SearchInit /\ [][SearchNext]_vars

(***************************************************************************)
(* LexicalIndex on its own (crates/store/src/lexical.rs): the calls of its *)
(* API in any order, all succeeding.  The writer holds the operations      *)
(* given since the last commit, in order; the reader holds, per doc_id,    *)
(* the number of documents the searcher sees.  A document's content is     *)
(* its doc_id, so a query for d matches the documents added as d.          *)
(* `log` keeps the operations of all commits so far (for the properties).  *)
(***************************************************************************)
Add(d) == [kind |-> "add", doc_id |-> d]
Del(d) == [kind |-> "delete", doc_id |-> d]

\* One operation applied to the segments: an added document is one more
\* document; delete_term removes every document added before it as d.
apply_op(docs, op) ==
  IF op.kind = "add" THEN [docs EXCEPT ![op.doc_id] = @ + 1]
  ELSE [docs EXCEPT ![op.doc_id] = 0]

RECURSIVE apply_ops(_, _)
apply_ops(docs, given) ==
  IF given = <<>> THEN docs ELSE apply_ops(apply_op(docs, Head(given)), Tail(given))

RECURSIVE num_docs(_, _)
num_docs(docs, S) ==
  IF S = {} THEN 0
  ELSE LET d == CHOOSE x \in S : TRUE IN docs[d] + num_docs(docs, S \ {d})

\* A writer whose buffered operations the reader already sees.
write_through(ix, given) ==
  [ix EXCEPT !.reader = apply_ops(@, given), !.writer = @ \o given,
             !.count = Unasked, !.hits = Unasked]

\* writer.add_document / writer.delete_term: the operation is buffered.
stage(ix, given) ==
  [ix EXCEPT !.writer = @ \o given, !.count = Unasked, !.hits = Unasked]

Budget == MaxLexOps - Len(index.writer) - Len(index.log)

IndexFrame ==
  UNCHANGED <<disk, storeVars, runVars, gcResult, boundVars, histVars, search, call, watch, table, paged, moreVars>>

LexicalInit ==
  /\ disk = [p \in Paths |->
               [exists |-> FALSE, mtime |-> TicksPerSec - 1, big |-> FALSE,
                content |-> IF is_paged(p) THEN <<>> ELSE 0]]
  /\ Fresh
  /\ search = NoSearch
  /\ index = NoIndex
  /\ call = NoCall
  /\ watch = NoWatch
  /\ table = NoTable
  /\ paged = NoPaged
  /\ OthersIdle

\* add_document (lines 103-115).
AddDocument ==
  /\ Budget >= 1
  /\ \E d \in LexDocs : index' = stage(index, <<Add(d)>>)
  /\ IndexFrame

\* add_documents (lines 118-132), with two documents.
AddDocuments ==
  /\ Budget >= 2
  /\ \E d, e \in LexDocs : index' = stage(index, <<Add(d), Add(e)>>)
  /\ IndexFrame

\* delete_by_doc_ids (lines 200-216); an empty list returns at once.
DeleteByDocIds ==
  /\ \E ids \in SeqsUpTo(LexDocs, 2) :
       /\ Budget >= Len(ids)
       /\ index' = IF ids = <<>> THEN index
                   ELSE stage(index, [i \in 1..Len(ids) |-> Del(ids[i])])
  /\ IndexFrame

\* commit (lines 135-146): writer.commit(), then reader.reload().
Commit ==
  /\ index' = [index EXCEPT !.reader = apply_ops(@, index.writer),
                            !.log = @ \o index.writer, !.writer = <<>>,
                            !.count = Unasked, !.hits = Unasked]
  /\ IndexFrame

\* count (lines 219-224): searcher.num_docs().
Count ==
  /\ index' = [index EXCEPT !.count = num_docs(index.reader, LexDocs)]
  /\ IndexFrame

\* search (lines 149-196) for the documents whose content is q.
SearchIndex ==
  /\ \E q \in LexDocs : index' = [index EXCEPT !.query = q, !.hits = index.reader[q]]
  /\ IndexFrame

LexicalNext ==
  \/ AddDocument
  \/ AddDocuments
  \/ DeleteByDocIds
  \/ Commit
  \/ Count
  \/ SearchIndex

LexicalSpec == LexicalInit /\ [][LexicalNext]_vars

(***************************************************************************)
(* StateManager on its own (crates/store/src/state.rs): mark_indexed and   *)
(* remove_file called with any arguments while the files on disk are       *)
(* touched or deleted.  The doc_ids of one call are distinct (the indexer  *)
(* mints a fresh UUID per chunk).  `call` keeps the last call's arguments  *)
(* and the doc_ids the path had before it.                                 *)
(***************************************************************************)
\* The mtimes a caller can pass: any instant of the first two seconds.
Mtimes == 0..(2 * TicksPerSec - 1)

StateFrame ==
  UNCHANGED <<disk, vec, minted, lexLive, lexStaged, runVars, gcResult, boundVars,
              histVars, search, index, watch, table, paged, moreVars>>

StateInit ==
  /\ disk = [p \in Paths |->
               [exists |-> TRUE, mtime |-> TicksPerSec - 1, big |-> FALSE,
                content |-> IF is_paged(p) THEN <<1>> ELSE 1]]
  /\ Fresh
  /\ search = NoSearch
  /\ index = NoIndex
  /\ call = NoCall
  /\ watch = NoWatch
  /\ table = NoTable
  /\ paged = NoPaged
  /\ OthersIdle

\* mark_indexed(path, mtime, doc_ids) (lines 74-105).
MarkIndexed ==
  /\ call.n < MaxStateCalls
  /\ \E p \in Paths, mtime \in Mtimes, doc_ids \in Rankings(StateDocs) :
       \E failAt \in 0..(Len(doc_ids) + 2) :
         LET m == mark_indexed(files, file_docs, p, mtime, doc_ids, failAt)
         IN  /\ files' = m.files
             /\ file_docs' = m.file_docs
             /\ call' = [op |-> "mark_indexed", path |-> p, mtime |-> mtime,
                         doc_ids |-> doc_ids, ok |-> m.ok, old |-> file_docs[p],
                         returned |-> {}, n |-> call.n + 1]
  /\ StateFrame

\* remove_file(path) (lines 185-202).
RemoveFile ==
  /\ call.n < MaxStateCalls
  /\ \E p \in Paths :
       LET r == remove_file(files, file_docs, p)
       IN  /\ files' = r.files
           /\ file_docs' = r.file_docs
           /\ call' = [NoCall EXCEPT !.op = "remove_file", !.path = p,
                                     !.old = file_docs[p], !.returned = r.doc_ids,
                                     !.n = call.n + 1]
  /\ StateFrame

StateNext ==
  \/ MarkIndexed
  \/ RemoveFile
  \/ \E p \in Paths : TouchFile(p)
  \/ \E p \in Paths : DeleteFile(p)

StateSpec == StateInit /\ [][StateNext]_vars

(***************************************************************************)
(* FileWatcher::wait_for_changes (crates/nexus_core/src/watch.rs).  A path *)
(* is its file name, a sequence of characters.  An event carries a kind    *)
(* and one or two paths (a rename names both).  `seen` keeps the (path,    *)
(* kind) pairs of the events received by the call (for the properties).    *)
(***************************************************************************)
Plain == <<"a">>
Temp == <<"a", ".", "t">>
Backup == <<"a", "~">>
Folder == <<"d">>
WatchFiles == {Plain, Temp, Backup}
WatchPaths == WatchFiles \cup {Folder}
Patterns == {<<"*", ".", "t">>, <<"*", "~">>, <<"?", "~">>}
EventKinds == {"Create", "Modify", "Remove", "Access", "Other"}

\* A matcher whose `*' stands for one character or more.
RECURSIVE glob_match_some(_, _)
glob_match_some(pattern, text) ==
  IF pattern = <<>> THEN text = <<>>
  ELSE IF text = <<>> THEN FALSE
  ELSE IF Head(pattern) = "*"
    THEN \/ glob_match_some(Tail(pattern), Tail(text))
         \/ glob_match_some(pattern, Tail(text))
  ELSE IF Head(pattern) = "?" THEN glob_match_some(Tail(pattern), Tail(text))
  ELSE Head(pattern) = Head(text) /\ glob_match_some(Tail(pattern), Tail(text))

\* glob_match and glob_match_helper (lines 161-184).
RECURSIVE glob_match(_, _)
glob_match(pattern, text) ==
  IF pattern = <<>> THEN text = <<>>
  ELSE IF Head(pattern) = "*"
    THEN \/ glob_match(Tail(pattern), text)
         \/ (text # <<>> /\ glob_match(pattern, Tail(text)))
  ELSE IF text = <<>> THEN FALSE
  ELSE IF Head(pattern) = "?" THEN glob_match(Tail(pattern), Tail(text))
  ELSE Head(pattern) = Head(text) /\ glob_match(Tail(pattern), Tail(text))

\* should_ignore (lines 146-158).
should_ignore(patterns, path) == \E pat \in patterns : glob_match(pat, path)

\* The final step with the Remove events forgotten.
keep_modified(modified, deleted) == modified

\* "deleted wins" (lines 95-98): modified.remove(path) for each deleted path.
deleted_wins(modified, deleted) == modified \ deleted

\* process_event (lines 107-143) for one path of an event; is_dir is what
\* path.is_dir() answers at that moment.
process_path(w, kind, path, is_dir) ==
  IF is_dir \/ should_ignore(w.ignore_patterns, path) THEN w
  ELSE IF kind \in {"Create", "Modify"} THEN [w EXCEPT !.modified = @ \cup {path}]
  ELSE IF kind = "Remove" THEN [w EXCEPT !.deleted = @ \cup {path}]
  ELSE w

RECURSIVE process_event(_, _, _, _)
process_event(w, kind, paths, dirs) ==
  IF paths = <<>> THEN w
  ELSE process_event(process_path(w, kind, Head(paths), Head(paths) \in dirs),
                     kind, Tail(paths), dirs)

WatchFrame ==
  UNCHANGED <<disk, storeVars, runVars, gcResult, boundVars, histVars, search, index, call,
              table, paged, moreVars>>

WatchInit ==
  /\ disk = [p \in Paths |->
               [exists |-> FALSE, mtime |-> TicksPerSec - 1, big |-> FALSE,
                content |-> IF is_paged(p) THEN <<>> ELSE 0]]
  /\ Fresh
  /\ search = NoSearch
  /\ index = NoIndex
  /\ call = NoCall
  /\ table = NoTable
  /\ paged = NoPaged
  /\ OthersIdle
  /\ watch \in {[NoWatch EXCEPT !.status = "waiting", !.ignore_patterns = pats] :
                  pats \in SUBSET Patterns}

\* receiver.recv() / recv_timeout(debounce) returns Ok(Ok(event)): the first
\* event, or one more inside the debounce window.
ReceiveEvent ==
  /\ watch.status \in {"waiting", "collecting"}
  /\ watch.received < MaxWatchEvents
  /\ \E kind \in EventKinds, paths \in (Rankings(WatchPaths) \ {<<>>}),
        dirs \in SUBSET {Folder} :
       /\ Len(paths) <= 2
       /\ Len(paths) = 2 => kind = "Modify"
       /\ watch' = [process_event(watch, kind, paths, dirs) EXCEPT
                      !.status = "collecting", !.received = @ + 1,
                      !.seen = @ \cup {[path |-> paths[i], kind |-> kind] :
                                         i \in 1..Len(paths)}]
  /\ WatchFrame

\* The channel delivers a notify error: it is printed and dropped.
ReceiveError ==
  /\ watch.status \in {"waiting", "collecting"}
  /\ watch.received < MaxWatchEvents
  /\ watch' = [watch EXCEPT !.status = "collecting", !.received = @ + 1]
  /\ WatchFrame

\* A return that does not wait for the first event.
DebounceUnawaited ==
  /\ watch.status \in {"waiting", "collecting"}
  /\ watch' = [watch EXCEPT !.status = "returned",
                 !.batch = [modified |-> deleted_wins(watch.modified, watch.deleted),
                            deleted |-> watch.deleted]]
  /\ WatchFrame

\* recv_timeout reports Timeout: the batch is returned (lines 85-103).
DebounceElapsed ==
  /\ watch.status = "collecting"
  /\ watch' = [watch EXCEPT !.status = "returned",
                 !.batch = [modified |-> deleted_wins(watch.modified, watch.deleted),
                            deleted |-> watch.deleted]]
  /\ WatchFrame

\* The sending side is gone: recv()? or the Disconnected arm fails the call.
Disconnected ==
  /\ watch.status \in {"waiting", "collecting"}
  /\ watch' = [watch EXCEPT !.status = "error"]
  /\ WatchFrame

WatchNext ==
  \/ ReceiveEvent
  \/ ReceiveError
  \/ DebounceElapsed
  \/ Disconnected

WatchSpec == WatchInit /\ [][WatchNext]_vars

\* recv_timeout(debounce) comes back with Timeout once the channel has been
\* silent for the debounce period: the return cannot be put off for ever.
WatchLiveSpec == WatchSpec /\ WF_watch(DebounceElapsed)

(***************************************************************************)
(* LanceVectorStore used on its own (crates/store/src/lib.rs).  A doc_id   *)
(* is a sequence of characters; of a vector only its length is kept.       *)
(***************************************************************************)
EMBEDDING_DIM == 384
Alphabet == {"a", "b", "_", "%", "'"}
Strings == SeqsUpTo(Alphabet, MaxIdLen)
VectorLens == {EMBEDDING_DIM - 1, EMBEDDING_DIM, EMBEDDING_DIM + 1}

\* doc_id.replace('\'', "''") (line 251).
RECURSIVE escape_quotes(_)
escape_quotes(str) ==
  IF str = <<>> THEN <<>>
  ELSE (IF Head(str) = "'" THEN <<"'", "'">> ELSE <<Head(str)>>)
         \o escape_quotes(Tail(str))

\* The value of a SQL string literal, read from after its opening quote:
\* a doubled quote is one quote, a single quote ends the literal.
RECURSIVE sql_string(_)
sql_string(str) ==
  IF str = <<>> THEN <<>>
  ELSE IF Head(str) = "'"
    THEN IF Len(str) >= 2 /\ str[2] = "'"
           THEN <<"'">> \o sql_string(Tail(Tail(str)))
           ELSE <<>>
  ELSE <<Head(str)>> \o sql_string(Tail(str))

\* SQL LIKE: % stands for any characters, _ for exactly one.
RECURSIVE like(_, _)
like(pattern, text) ==
  IF pattern = <<>> THEN text = <<>>
  ELSE IF Head(pattern) = "%"
    THEN \/ like(Tail(pattern), text)
         \/ (text # <<>> /\ like(pattern, Tail(text)))
  ELSE IF text = <<>> THEN FALSE
  ELSE IF Head(pattern) = "_" THEN like(Tail(pattern), Tail(text))
  ELSE Head(pattern) = Head(text) /\ like(Tail(pattern), Tail(text))

\* get_metadata (lines 242-291): the rows that `doc_id LIKE '<escaped>%'`
\* with limit(1) can give; {} stands for Ok(None).
get_metadata(rows, doc_id) ==
  LET pattern == sql_string(escape_quotes(doc_id) \o <<"%", "'">>)
      hits == {r \in rows : like(pattern, r.doc_id)}
  IN  IF rows = {} THEN {{}} ELSE IF hits = {} THEN {{}} ELSE {{r} : r \in hits}

\* add_embedding (lines 141-168).  create_batch appends the given values to
\* a FixedSizeListBuilder of EMBEDDING_DIM and finishes it: with another
\* length Arrow either refuses the list (its length assertion panics) or the
\* batch is refused with an error; no row is written in either case.
add_embedding(rows, embedding_len, doc_id) ==
  IF embedding_len # EMBEDDING_DIM
    THEN {[rows |-> rows, status |-> st] : st \in {"panic", "error"}}
    ELSE {[rows |-> rows \cup {[doc_id |-> doc_id, len |-> embedding_len]},
           status |-> "ok"]}

\* search (lines 170-240): without a table Ok(vec![]) before the query is
\* looked at; with one, LanceDB refuses a query of another dimension.
store_search(rows, query_len) ==
  IF rows = {} THEN [status |-> "ok", returned |-> {}]
  ELSE IF query_len # EMBEDDING_DIM THEN [status |-> "error", returned |-> {}]
  ELSE [status |-> "ok", returned |-> rows]

TableFrame ==
  UNCHANGED <<disk, storeVars, runVars, gcResult, boundVars, histVars, search, index, call,
              watch, paged, moreVars>>

TableInit ==
  /\ disk = [p \in Paths |->
               [exists |-> FALSE, mtime |-> TicksPerSec - 1, big |-> FALSE,
                content |-> IF is_paged(p) THEN <<>> ELSE 0]]
  /\ Fresh
  /\ search = NoSearch
  /\ index = NoIndex
  /\ call = NoCall
  /\ watch = NoWatch
  /\ table = NoTable
  /\ paged = NoPaged
  /\ OthersIdle

AddEmbedding ==
  /\ Cardinality(table.rows) < MaxRows
  /\ \E doc_id \in Strings \ {<<>>}, embedding_len \in VectorLens :
       \E r \in add_embedding(table.rows, embedding_len, doc_id) :
         table' = [rows |-> r.rows, op |-> "add_embedding", arg |-> doc_id,
                   len |-> embedding_len, status |-> r.status, returned |-> {},
                   before |-> table.rows]
  /\ TableFrame

SearchTable ==
  /\ \E query_len \in VectorLens :
       LET r == store_search(table.rows, query_len)
       IN  table' = [rows |-> table.rows, op |-> "search", arg |-> <<>>,
                     len |-> query_len, status |-> r.status, returned |-> r.returned,
                     before |-> table.rows]
  /\ TableFrame

GetMetadata ==
  /\ \E doc_id \in Strings :
       \E r \in get_metadata(table.rows, doc_id) :
         table' = [rows |-> table.rows, op |-> "get_metadata", arg |-> doc_id,
                   len |-> 0, status |-> "ok", returned |-> r, before |-> table.rows]
  /\ TableFrame

TableNext ==
  \/ AddEmbedding
  \/ SearchTable
  \/ GetMetadata

TableSpec == TableInit /\ [][TableNext]_vars

(***************************************************************************)
(* The page loop of run_with_progress (crates/nexus_core/src/lib.rs,       *)
(* lines 400-493) over one paged file, with every chunk of every page: a   *)
(* page is the number of chunks chunk_text makes of its text.              *)
(***************************************************************************)
PageCounts == {0, 1, PageStride, PageStride + 1}

\* global_chunk_idx (line 421).
global_chunk_idx(page_num, i) == page_num * PageStride + i

\* metadata_batch (lines 418-436): one row per chunk of the page.
metadata_batch(page_num, n) ==
  {[page_num |-> page_num, chunk_in_page |-> i,
    chunk_index |-> global_chunk_idx(page_num, i)] : i \in 0..(n - 1)}

PagedFrame ==
  UNCHANGED <<disk, storeVars, runVars, gcResult, boundVars, histVars, search, index, call,
              watch, table, moreVars>>

PagedInit ==
  /\ disk = [p \in Paths |->
               [exists |-> FALSE, mtime |-> TicksPerSec - 1, big |-> FALSE,
                content |-> IF is_paged(p) THEN <<>> ELSE 0]]
  /\ Fresh
  /\ search = NoSearch
  /\ index = NoIndex
  /\ call = NoCall
  /\ watch = NoWatch
  /\ table = NoTable
  /\ OthersIdle
  /\ paged \in {[NoPaged EXCEPT !.pages = c, !.status = "indexing"] :
                  c \in SeqsUpTo(PageCounts, MaxFilePages) \ {<<>>}}

AfterPage ==
  [paged EXCEPT !.next = @ + 1,
                !.status = IF paged.next + 1 = Len(paged.pages) THEN "indexed" ELSE @]

\* An empty page: `continue` (lines 404-407).
EmptyPage ==
  /\ paged.status = "indexing"
  /\ paged.pages[paged.next + 1] = 0
  /\ paged' = AfterPage
  /\ PagedFrame

\* A page with chunks: each gets its row (lines 409-439); no count is checked.
StorePage ==
  /\ paged.status = "indexing"
  /\ paged.pages[paged.next + 1] > 0
  /\ paged' = [AfterPage EXCEPT
                 !.stored = @ \cup metadata_batch(paged.next, paged.pages[paged.next + 1])]
  /\ PagedFrame

PagedNext ==
  \/ EmptyPage
  \/ StorePage

PagedSpec == PagedInit /\ [][PagedNext]_vars

(***************************************************************************)
(* chunk_text (crates/nexus_core/src/lib.rs, lines 552-642), one call of   *)
(* it followed loop iteration by loop iteration.  A text is a sequence of  *)
(* characters; Wide stands for a scalar value of two bytes (such as an     *)
(* accented letter), every other character is one byte.  Positions are     *)
(* counted from 0 as in the code, so chars[i] of the code is chars[i + 1]. *)
(***************************************************************************)
Wide == "w"
Letters == {"x", Wide}
Whitespace == {" ", "\n"}
Blank == <<"\n", "\n">>
ParagraphRatio == 100
MaxTextLen == 4
MaxShortLen == 3
BlockLen == 400

is_whitespace(c) == c \in Whitespace

\* str::len: the length in bytes.
len(s) == Len(s) + Cardinality({i \in 1..Len(s) : s[i] = Wide})

Min(S) == CHOOSE x \in S : \A y \in S : x <= y
Max(S) == CHOOSE x \in S : \A y \in S : y <= x

\* str::trim: without the leading and trailing whitespace.
trim(s) ==
  LET inked == {i \in 1..Len(s) : ~is_whitespace(s[i])}
  IN  IF inked = {} THEN <<>> ELSE SubSeq(s, Min(inked), Max(inked))

\* text.split("\n\n"): the pieces between the blank lines, found from the left.
RECURSIVE split(_)
split(s) ==
  LET hits == {i \in 1..(Len(s) - 1) : SubSeq(s, i, i + 1) = Blank}
  IN  IF hits = {} THEN <<s>>
      ELSE <<SubSeq(s, 1, Min(hits) - 1)>> \o split(SubSeq(s, Min(hits) + 2, Len(s)))

\* The texts: every short one, and long ones of three blocks between blank
\* lines, long enough for the paragraph mode.
Long == [i \in 1..BlockLen |-> IF i % 7 = 0 THEN " " ELSE "x"]
Blocks == {<<>>, <<"x">>, <<Wide, Wide>>, <<" ", "x", "\n">>, Long}
ShortTexts == SeqsUpTo({"x", " ", "\n"}, MaxTextLen)
LongTexts == {a \o Blank \o b \o Blank \o c : a \in Blocks, b \in Blocks, c \in Blocks}
ShortLens == 0..MaxShortLen
LongLens == {0, MaxShortLen, MaxShortLen + 1, 2 * MaxShortLen, BlockLen + MaxShortLen}

\* Lines 577-580: the buffer is flushed before a paragraph that
\* would not fit behind it.
overflows_unjoined(current, para, max_len) ==
  current # <<>> /\ len(current) + len(para) > max_len
overflows(current, para, max_len) ==
  current # <<>> /\ len(current) + len(para) + 2 > max_len

\* Lines 633-638: the next window starts behind the whitespace after `end'.
skip_one(chars, end) == Min({end + 1, Len(chars)})
skip_whitespace(chars, end) ==
  Min({s \in end..Len(chars) : s = Len(chars) \/ ~is_whitespace(chars[s + 1])})

\* Lines 613-626: where the window that starts at `start' ends.
window_end(chars, start, max_len) ==
  LET reach == Min({start + max_len, Len(chars)})
      break_pos == Max({b \in start..reach : b = start \/ is_whitespace(chars[b + 1])})
  IN  IF reach < Len(chars) /\ break_pos > start + (max_len \div 2) THEN break_pos ELSE reach

\* One iteration of the loop of chunk_by_chars (lines 612-639).
chunk_by_chars(c) ==
  LET end == window_end(c.chars, c.start, c.max_len)
      trimmed == trim(SubSeq(c.chars, c.start + 1, end))
  IN  [c EXCEPT !.local = IF trimmed # <<>> THEN Append(@, trimmed) ELSE @,
                !.start = skip_whitespace(c.chars, end)]

\* chunk_by_chars is entered on a text (lines 606-610).
enter_chars(c, text, caller) ==
  [c EXCEPT !.status = "chars", !.chars = text, !.start = 0, !.local = <<>>,
            !.caller = caller]

\* One iteration of the loop of chunk_by_paragraphs (lines 570-596).
chunk_by_paragraphs(c) ==
  LET para == trim(Head(c.pending))
      rest == [c EXCEPT !.pending = Tail(@)]
      full == overflows(c.current, para, c.max_len)
      flushed == [rest EXCEPT !.chunks = IF full THEN Append(@, c.current) ELSE @,
                              !.current = IF full THEN <<>> ELSE @]
  IN  IF para = <<>> THEN rest
      ELSE IF len(para) > c.max_len
        THEN enter_chars([flushed EXCEPT
                            !.chunks = IF flushed.current # <<>>
                                         THEN Append(@, flushed.current) ELSE @,
                            !.current = <<>>],
                         para, "paragraphs")
        ELSE [flushed EXCEPT
                !.current = (IF @ # <<>> THEN @ \o Blank ELSE @) \o para]

\* chunk_text itself (lines 552-563): the choice of the mode.
chunk_text(c) ==
  LET paragraphs == split(c.text)
  IN  IF Len(paragraphs) > 1 /\ Len(paragraphs) < len(c.text) \div ParagraphRatio
        THEN [c EXCEPT !.status = "paragraphs", !.pending = paragraphs]
        ELSE enter_chars(c, c.text, "chunk_text")

ChunkFrame ==
  UNCHANGED <<disk, storeVars, runVars, gcResult, boundVars, histVars, search, index, call,
              watch, table, paged, glob, embedder>>

ChunkInit ==
  /\ disk = [p \in Paths |->
               [exists |-> FALSE, mtime |-> TicksPerSec - 1, big |-> FALSE,
                content |-> IF is_paged(p) THEN <<>> ELSE 0]]
  /\ Fresh
  /\ search = NoSearch
  /\ index = NoIndex
  /\ call = NoCall
  /\ watch = NoWatch
  /\ table = NoTable
  /\ paged = NoPaged
  /\ glob = NoGlob
  /\ embedder = NoEmbedder
  /\ chunker \in {[NoChunker EXCEPT !.text = t, !.max_len = m, !.status = "called"] :
                    <<t, m>> \in (ShortTexts \X ShortLens) \cup (LongTexts \X LongLens)}

ChunkText ==
  /\ chunker.status = "called"
  /\ chunker' = chunk_text(chunker)
  /\ ChunkFrame

NextParagraph ==
  /\ chunker.status = "paragraphs"
  /\ chunker.pending # <<>>
  /\ chunker' = chunk_by_paragraphs(chunker)
  /\ ChunkFrame

\* Lines 598-601: the last buffer, and the return of chunk_by_paragraphs.
ParagraphsDone ==
  /\ chunker.status = "paragraphs"
  /\ chunker.pending = <<>>
  /\ chunker' = [chunker EXCEPT
                   !.chunks = IF chunker.current # <<>> THEN Append(@, chunker.current) ELSE @,
                   !.current = <<>>,
                   !.status = "returned"]
  /\ ChunkFrame

NextWindow ==
  /\ chunker.status = "chars"
  /\ chunker.start < Len(chunker.chars)
  /\ chunker' = chunk_by_chars(chunker)
  /\ ChunkFrame

\* Line 641: chunk_by_chars returns its chunks, to chunk_text (line 562) or
\* to the paragraph loop (line 585).
CharsDone ==
  /\ chunker.status = "chars"
  /\ chunker.start >= Len(chunker.chars)
  /\ chunker' = [chunker EXCEPT
                   !.chunks = @ \o chunker.local,
                   !.local = <<>>,
                   !.chars = <<>>,
                   !.start = 0,
                   !.status = IF chunker.caller = "paragraphs" THEN "paragraphs"
                              ELSE "returned"]
  /\ ChunkFrame

ChunkNext ==
  \/ ChunkText
  \/ NextParagraph
  \/ ParagraphsDone
  \/ NextWindow
  \/ CharsDone

ChunkSpec == ChunkInit /\ [][ChunkNext]_vars

\* chunk_by_chars runs on as long as it has a step to take: its loop is
\* sequential code that nothing suspends.
ChunkLiveSpec == ChunkSpec /\ WF_chunker(NextWindow) /\ WF_chunker(CharsDone)

(***************************************************************************)
(* FileWatcher::glob_match (crates/nexus_core/src/watch.rs, lines 161-184) *)
(* called on its own with any pattern and any text.                        *)
(***************************************************************************)
MaxGlobLen == 3
GlobPatterns == SeqsUpTo({"a", "b", "*", "?"}, MaxGlobLen)
GlobTexts == SeqsUpTo({"a", "b", "?"}, MaxGlobLen)

GlobFrame ==
  UNCHANGED <<disk, storeVars, runVars, gcResult, boundVars, histVars, search, index, call,
              watch, table, paged, chunker, embedder>>

GlobInit ==
  /\ disk = [p \in Paths |->
               [exists |-> FALSE, mtime |-> TicksPerSec - 1, big |-> FALSE,
                content |-> IF is_paged(p) THEN <<>> ELSE 0]]
  /\ Fresh
  /\ search = NoSearch
  /\ index = NoIndex
  /\ call = NoCall
  /\ watch = NoWatch
  /\ table = NoTable
  /\ paged = NoPaged
  /\ chunker = NoChunker
  /\ embedder = NoEmbedder
  /\ glob \in {[NoGlob EXCEPT !.pattern = p, !.text = t, !.status = "called"] :
                 p \in GlobPatterns, t \in GlobTexts}

GlobMatch ==
  /\ glob.status = "called"
  /\ glob' = [glob EXCEPT !.status = "returned",
                          !.result = glob_match(glob.pattern, glob.text)]
  /\ GlobFrame

GlobSpec == GlobInit /\ [][GlobMatch]_vars

(***************************************************************************)
(* The embedder calls of one run (crates/nexus_core/src/lib.rs, lines      *)
(* 189-252 and 413) and LocalEmbedder (crates/embed/src/lib.rs, lines      *)
(* 21-95): the Rayon workers of Phase 1 side by side, then the calls of    *)
(* embed_batch of Phases 2 and 3, each one a lock of the model's mutex, the *)
(* call of the model under the lock, and the return that gives it back.    *)
(***************************************************************************)
\* Phase 2 begins whatever the workers are doing.
unjoined(e) == TRUE
\* .collect() (line 232) comes back when every worker has finished.
joined(e) == \A w \in Workers : e.workers[w] = "done"

\* self.model.lock() (embed lines 86 and 92) goes through when no one holds
\* the mutex.
may_lock(e) == e.model = "free"

EmbedFrame ==
  UNCHANGED <<disk, storeVars, runVars, gcResult, boundVars, histVars, search, index, call,
              watch, table, paged, chunker, glob>>

EmbedInit ==
  /\ disk = [p \in Paths |->
               [exists |-> FALSE, mtime |-> TicksPerSec - 1, big |-> FALSE,
                content |-> IF is_paged(p) THEN <<>> ELSE 0]]
  /\ Fresh
  /\ search = NoSearch
  /\ index = NoIndex
  /\ call = NoCall
  /\ watch = NoWatch
  /\ table = NoTable
  /\ paged = NoPaged
  /\ chunker = NoChunker
  /\ glob = NoGlob
  /\ embedder \in {[NoEmbedder EXCEPT !.phase = "phase1", !.left2 = n2, !.left3 = n3] :
                     n2 \in 0..MaxBatches, n3 \in 0..MaxBatches}

\* Phase 1 (lines 189-231): a worker takes a file, extracts and chunks it.
\* No worker calls the embedder.
WorkerTakes(w) ==
  /\ embedder.phase = "phase1"
  /\ embedder.workers[w] = "idle"
  /\ embedder' = [embedder EXCEPT !.workers[w] = "extracting"]
  /\ EmbedFrame

WorkerDone(w) ==
  /\ embedder.workers[w] = "extracting"
  /\ embedder' = [embedder EXCEPT !.workers[w] = "done"]
  /\ EmbedFrame

\* Line 232: the results are collected, Phase 2 begins.
CollectResults ==
  /\ embedder.phase = "phase1"
  /\ joined(embedder)
  /\ embedder' = [embedder EXCEPT !.phase = "phase2"]
  /\ EmbedFrame

\* Lines 252 and 413: self.embedder.embed_batch(&chunk_refs).await for the
\* next file of Phase 2 or the next page of Phase 3.
EmbedBatchCall ==
  /\ embedder.call = "none"
  /\ \/ embedder.phase = "phase2" /\ embedder.left2 > 0
     \/ embedder.phase = "phase3" /\ embedder.left3 > 0
  /\ embedder' = [embedder EXCEPT !.call = "locking"]
  /\ EmbedFrame

\* embed lines 92-93: the lock is taken and model.embed is entered.
LockModel ==
  /\ embedder.call = "locking"
  /\ may_lock(embedder)
  /\ embedder' = [embedder EXCEPT !.call = "embedding", !.model = "locked",
                                  !.in_model = @ \cup {"run"}]
  /\ EmbedFrame

\* embed lines 93-95: model.embed comes back with Ok or Err, the guard is
\* dropped, and the loop of the phase goes on.
EmbedReturns ==
  /\ embedder.call = "embedding"
  /\ embedder' = [embedder EXCEPT
                    !.call = "none", !.model = "free", !.in_model = @ \ {"run"},
                    !.left2 = IF embedder.phase = "phase2" THEN @ - 1 ELSE @,
                    !.left3 = IF embedder.phase = "phase3" THEN @ - 1 ELSE @]
  /\ EmbedFrame

\* The loop of Phase 2 is over (line 337), then that of Phase 3 (line 497).
NextPhase ==
  /\ embedder.call = "none"
  /\ \/ embedder.phase = "phase2" /\ embedder.left2 = 0
        /\ embedder' = [embedder EXCEPT !.phase = "phase3"]
     \/ embedder.phase = "phase3" /\ embedder.left3 = 0
        /\ embedder' = [embedder EXCEPT !.phase = "phase4"]
  /\ EmbedFrame

EmbedNext ==
  \/ \E w \in Workers : WorkerTakes(w)
  \/ \E w \in Workers : WorkerDone(w)
  \/ CollectResults
  \/ EmbedBatchCall
  \/ LockModel
  \/ EmbedReturns
  \/ NextPhase

EmbedSpec == EmbedInit /\ [][EmbedNext]_vars

(***************************************************************************)
(* Properties.                                                             *)
(***************************************************************************)
LexHeld == lexLive \cup lexStaged
VecIds == DocIds(vec)
LexIds == DocIds(LexHeld)
Last == hist[Len(hist)]
RowsOf(rows, p) == {r \in rows : r.file_path = p}

\* The run (or garbage_collect) that just returned Ok, nothing started since.
AfterRunOk == pc = "idle" /\ Len(hist) >= 1 /\ Last.op = "run" /\ Last.ok
AfterGcOk == pc = "idle" /\ Len(hist) >= 1 /\ Last.op = "gc" /\ Last.ok

\* chunk_index of every chunk of the pages 0..c-1 of a paged content.
PageChunks(pages, c) ==
  UNION {{i * PageStride + j : j \in 0..(pages[i + 1] - 1)} : i \in 0..(c - 1)}

\* Every chunk of every page of p is stored once in `rows`.
EachChunkOnce(rows, p) ==
  \A x \in PageChunks(disk[p].content, Len(disk[p].content)) :
    Cardinality({r \in RowsOf(rows, p) : r.chunk_index = x}) = 1

\* C1: a paged file whose run was killed right after page k was checkpointed
\* (a non-empty page left, disk unchanged, nothing of the file stored before)
\* is, after the next run, indexed as by an uninterrupted run: every chunk of
\* every page once in both indexes, and the recorded doc_ids are those rows.
C1_ResumeCompletesFile ==
  (/\ pc = "idle" /\ Len(hist) = 2
   /\ hist[1].op = "killed" /\ hist[1].path # "" /\ hist[1].clean /\ ~hist[1].faulty
   /\ RowsOf(vec, hist[1].path) \cap {r \in vec : r.doc_id <= hist[1].firstId} = {}
   /\ \E i \in (hist[1].page + 2)..Len(disk[hist[1].path].content) :
        disk[hist[1].path].content[i] > 0
   /\ hist[2].op = "run" /\ hist[2].ok /\ hist[2].clean /\ ~hist[2].faulty)
  => LET p == hist[1].path
     IN  /\ EachChunkOnce(vec, p)
         /\ EachChunkOnce(lexLive, p)
         /\ file_docs[p] = DocIds(RowsOf(vec, p))

\* C2: after a run that returned Ok (no store, embedder or database failure
\* and no kill so far), every doc_id of the Vector Store is listed by exactly
\* one file record and held by the Lexical Index.
C2_StoredIdsOwnedAndLexical ==
  (/\ AfterRunOk /\ faults = 0 /\ kills = 0
   /\ ops = Len(hist)) =>
    \A r \in vec :
      /\ Cardinality({p \in Paths : r.doc_id \in file_docs[p]}) = 1
      /\ r.doc_id \in DocIds(lexLive)

\* C3: the second of two runs over an unchanged disk indexes nothing, counts
\* as unchanged what the first indexed, and leaves stores and state as they were.
C3_SecondRunIsNoOp ==
  (/\ pc = "idle" /\ Len(hist) = 2
   /\ \A i \in 1..2 : hist[i].op = "run" /\ hist[i].ok /\ hist[i].clean /\ ~hist[i].faulty)
  => /\ hist[2].indexed = 0
     /\ hist[2].unchanged = hist[1].indexed
     /\ hist[2].same

\* C4: after a run that returned Ok and a garbage_collect (nothing failed or
\* was killed), a file deleted from disk has none of its doc_ids in either index and no record in the State Manager.
C4_GcRemovesDeletedFile ==
  (/\ AfterGcOk /\ Len(hist) = 2 /\ faults = 0 /\ kills = 0
   /\ hist[1].op = "run" /\ hist[1].ok) =>
    \A p \in Last.deleted :
      /\ Last.old[p] \cap VecIds = {}
      /\ Last.old[p] \cap LexIds = {}
      /\ ~files[p].tracked
      /\ file_docs[p] = {}

\* C5: after garbage_collect and a run, a file found Modified has none of
\* its old doc_ids in either index and its record lists exactly the doc_ids
\* the run created for it.
C5_GcThenRunReplacesIds ==
  (/\ pc = "idle" /\ Len(hist) = 2 /\ faults = 0 /\ kills = 0
   /\ hist[1].op = "gc" /\ hist[1].ok /\ hist[1].clean
   /\ hist[2].op = "run" /\ hist[2].ok /\ hist[2].clean /\ ~hist[2].faulty)
  => \A p \in hist[1].modified :
       ~disk[p].big =>
         /\ hist[1].old[p] \cap VecIds = {}
         /\ hist[1].old[p] \cap LexIds = {}
         /\ file_docs[p] = {r.doc_id : r \in {x \in RowsOf(vec, p) : x.doc_id > hist[2].firstId}}

\* C6: once a Modified file has been re-indexed by a run (nothing failed or
\* was killed so far), none of the doc_ids it owned before is left in either
\* index, and its record lists only doc_ids the re-index stored.
C6_ReindexDropsOldIds ==
  (faults = 0 /\ kills = 0) =>
    \A p \in reindexed :
      /\ stale[p] \cap VecIds = {}
      /\ stale[p] \cap LexIds = {}
      /\ file_docs[p] \subseteq
           {r.doc_id : r \in {x \in RowsOf(vec, p) : x.doc_id > snap.minted}}

\* C7: in every state of a first indexing (disk never changed, no kill, no
\* checkpoint lost: every stored row of the file is recorded), a paged file
\* with page cursor c records exactly the doc_ids of the chunks of its pages
\* 0..c-1, all of them rows of the Vector Store.
C7_CursorMatchesRecordedIds ==
  \A p \in PagedFiles :
    (/\ files[p].tracked /\ files[p].page_cursor # NoCursor
     /\ diskOps = 0 /\ kills = 0
     /\ DocIds(RowsOf(vec, p)) \subseteq file_docs[p]) =>
      LET expected == PageChunks(disk[p].content, files[p].page_cursor)
          rows == {r \in vec : r.doc_id \in file_docs[p]}
      IN  /\ file_docs[p] \subseteq VecIds
          /\ \A r \in rows : r.file_path = p
          /\ {r.chunk_index : r \in rows} = expected
          /\ Cardinality(file_docs[p]) = Cardinality(expected)

\* C8: a garbage_collect that follows a garbage_collect, the disk unchanged,
\* no run in between and nothing failed or killed so far, removes nothing and returns an all-zero GcResult.
C8_SecondGcIsNoOp ==
  (/\ pc = "idle" /\ Len(hist) = 2
   /\ faults = 0 /\ kills = 0
   /\ hist[1].op = "gc" /\ hist[1].ok /\ hist[1].clean
   /\ hist[2].op = "gc" /\ hist[2].ok)
  => /\ hist[2].same
     /\ hist[2].gc = NoGc

\* C9: a file for which extraction, embed_batch or add_batch failed has the
\* State Manager record it had when the run began, and still needs indexing.
C9_FailureLeavesRecord ==
  \A p \in failed :
    /\ files[p] = snap.files[p]
    /\ file_docs[p] = snap.file_docs[p]
    /\ (pc = "idle" /\ Last.clean /\ disk[p].exists) => needs_indexing(files, disk, p)

\* C10: the paths with a FileError event are the paths of IndexResult.errors,
\* and a run ends in an error only when save or commit failed, else with Done.
C10_ErrorsMatchFileErrorEvents ==
  (pc = "idle" /\ Len(hist) >= 1 /\ Last.op = "run") =>
    /\ Last.ok <=> Last.fatal = "none"
    /\ Last.ok => (events.Done = 1 /\ events.FileError = Range(errors))

\* C11: garbage_collect is atomic with respect to the stores: when it returns
\* an error partway, every doc_id of a file it was removing that is still in
\* the Vector Store is still listed by a State Manager file record.
C11_GcErrorLeavesNoOrphan ==
  (pc = "idle" /\ Len(hist) >= 1 /\ Last.op = "gc" /\ ~Last.ok /\ kills = 0)
    => \A p \in Last.deleted :
         \A id \in Last.old[p] \cap DocIds(vec) :
           \E q \in Paths : files[q].tracked /\ id \in file_docs[q]

\* C12: when mark_indexed fails, at whichever of its statements, for a file
\* whose vectors were stored, the vectors remain and the file is still
\* reported by needs_indexing on the next run.
C12_FailedMarkStillNeedsIndexing ==
  (pc = "idle" /\ Len(hist) >= 1 /\ Last.op = "run" /\ diskOps = 0 /\ kills = 0)
    => \A p \in unmarked :
         /\ RowsOf(vec, p) # {}
         /\ needs_indexing(files, disk, p)

\* The files a finished run has dealt with: skipped, unchanged, started or
\* reported in errors.
Attempted ==
  files_skipped + files_unchanged + Cardinality(events.FileStarted \cup Range(errors))

\* C13: a failing Vector Store save or Lexical Index commit makes the run
\* return one top-level error, and only after every discovered file has been
\* attempted; Done is emitted exactly when the run returns Ok, once, and no
\* event of the run follows it.
C13_DoneOnlyOnOkAndLast ==
  /\ [](/\ events.Done <= 1
        /\ (pc = "idle" /\ Len(hist) >= 1 /\ Last.op = "run")
             => /\ Last.ok <=> events.Done = 1
                /\ Last.ok <=> Last.fatal = "none"
                /\ Last.fatal \in {"none", "save", "commit"}
                /\ todo1 = {} /\ pending2 = <<>> /\ pending3 = <<>> /\ cur = NoCur
                /\ Last.clean => Attempted = Cardinality(discover_files(disk)))
  /\ [][(events.Done >= 1 /\ events' # events) => events' = NoEvents]_vars

C13_Witness ==
  /\ pc = "idle" /\ Len(hist) >= 1 /\ Last.op = "run"
  /\ Last.fatal = "commit" /\ ~Last.ok
  /\ events.Done = 0
  /\ events.FileIndexed = {"a.txt", "p.pdf"}

\* C14: every file a run skips by policy (too large, or too many chunks)
\* produces a FileSkipped event, so the number of FileSkipped events of a run
\* equals IndexResult.files_skipped.
C14_SkippedFilesEmitFileSkipped ==
  (pc = "idle" /\ Len(hist) >= 1 /\ Last.op = "run" /\ Last.ok
     /\ faults = 0 /\ kills = 0 /\ diskOps = 0)
    => Cardinality(events.FileSkipped) = files_skipped

\* A run returned Ok with no failing call and no kill, and the disk is as
\* the run saw it.
AfterCleanRun ==
  /\ AfterRunOk /\ Last.clean /\ ~Last.faulty
  /\ faults = 0 /\ kills = 0

\* What the stores hold of path p.
HeldOf(st, p) ==
  [row |-> st.files[p], doc_ids |-> st.file_docs[p],
   vec |-> RowsOf(st.vec, p), lex |-> RowsOf(st.lex, p)]

\* C15 as stated: a flat file is skipped if and only if its chunk count
\* is strictly greater than max_chunks_per_file.
C15_SkippedIffTooManyChunks ==
  AfterCleanRun
    => \A p \in FlatFiles :
         disk[p].exists => (p \in skipped <=> disk[p].content > max_chunks_per_file)

\* C15: a flat file within max_file_size_bytes that needs indexing is
\* skipped (counted in files_skipped, nothing stored, no state change, still
\* needing indexing on the next run) if and only if its chunk count is
\* strictly greater than max_chunks_per_file; a file of exactly
\* max_chunks_per_file chunks is indexed.
C15_SkippedIffTooManyChunksWithinSize ==
  AfterCleanRun
    => \A p \in FlatFiles :
         (disk[p].exists /\ ~disk[p].big /\ needs_indexing(snap.files, disk, p))
           => /\ p \in skipped <=> disk[p].content > max_chunks_per_file
              /\ p \in skipped
                   => /\ HeldOf(Stores, p) = HeldOf(snap, p)
                      /\ needs_indexing(files, disk, p)
                      /\ p \notin events.FileStarted \cup events.FileIndexed
              /\ p \notin skipped
                   => /\ p \in events.FileIndexed
                      /\ Cardinality(RowsOf(vec, p) \ snap.vec) = disk[p].content
              /\ files_skipped = Cardinality(skipped)

C15_Witness ==
  /\ AfterCleanRun
  /\ disk["a.txt"].exists /\ ~disk["a.txt"].big
  /\ disk["a.txt"].content = max_chunks_per_file + 1
  /\ "a.txt" \in skipped
  /\ files_skipped = 1

\* The search of the worked example: vector ranking [A, B, C, D], lexical
\* ranking [B, E, A, F], hybrid mode, limit 3.
ExampleSearch ==
  /\ search.mode = "hybrid" /\ search.limit = 3 /\ ~search.blank
  /\ search.vector = <<"A", "B", "C", "D">>
  /\ search.lexical = <<"B", "E", "A", "F">>
  /\ search.status = "ok"

\* C16 as stated: hybrid fusion of [A, B, C, D] and [B, E, A, F] with k = 60
\* and limit = 3 returns exactly [B, A, C].
C16_ExampleReturnsBAC == ExampleSearch => search.results = <<"B", "A", "C">>

\* C16: hybrid fusion of the vector ranking [A, B, C, D] and the lexical
\* ranking [B, E, A, F] with k = 60 and limit = 3, each rank r contributing
\* 1/(k + r + 1), returns exactly [B, A, E]: E (1/62) scores above C (1/63).
C16_ExampleReturnsBAE == ExampleSearch => search.results = <<"B", "A", "E">>

C16_Witness == ExampleSearch /\ Len(search.results) = 3

Injective(s) == \A i, j \in 1..Len(s) : s[i] = s[j] => i = j

\* C17: in every search mode and for every limit >= 0 the result has at
\* most limit entries; with limit = 0 the search returns an empty result
\* and no error; in hybrid mode no doc_id appears twice.
C17_AtMostLimitAndZeroIsEmpty ==
  search.status \notin {"none", "ready"}
    => /\ Len(search.results) <= search.limit
       /\ search.limit = 0 => (search.status = "ok" /\ search.results = <<>>)
       /\ search.mode = "hybrid" => Injective(search.results)

\* What the index holds according to the operations of the commits so far.
Committed == apply_ops(NoIndex.reader, index.log)

\* C18: documents given to add_document/add_documents and deletions given
\* to delete_by_doc_ids are not visible to search or count until commit is
\* called; after commit, search and count reflect exactly the adds and
\* deletes staged before it.
C18_VisibleOnlyAfterCommit ==
  /\ index.count # Unasked => index.count = num_docs(Committed, LexDocs)
  /\ index.hits # Unasked => index.hits = Committed[index.query]

C18_Witness ==
  /\ \E i \in 1..Len(index.log) : index.log[i].kind = "delete"
  /\ \E i \in 1..Len(index.writer) : index.writer[i].kind = "add"
  /\ index.count # Unasked
  /\ index.count > 0
  /\ index.count # num_docs(apply_ops(index.reader, index.writer), LexDocs)

\* C19: needs_indexing(path) is true exactly when the path has no file
\* record (NotIndexed) or its disk mtime is strictly greater than the stored
\* mtime (Modified), and it is false for every path that does not exist on
\* disk, whether or not it has a file record.
C19_NeedsIndexingFalseWhenMissing ==
  \A p \in Paths :
    /\ needs_indexing(files, disk, p)
         <=> \/ ~files[p].tracked
             \/ get_file_state(files, disk, p) = "Modified"
    /\ get_file_state(files, disk, p) = "Modified"
         => Secs(disk[p].mtime) > files[p].file_mtime
    /\ ~disk[p].exists => ~needs_indexing(files, disk, p)

\* C20: after mark_indexed(path, mtime, doc_ids) succeeds, the doc_ids
\* recorded for path are exactly the given ones (the earlier ones are gone),
\* the stored mtime is the given mtime (in whole seconds, the unit of the
\* file record), the file is Indexed while its disk mtime is the given one,
\* and the record and doc_ids of every other path are unchanged.
C20_MarkIndexedReplacesRecord ==
  [][(call' # call /\ call'.op = "mark_indexed" /\ call'.ok)
       => LET p == call'.path
          IN  /\ file_docs'[p] = Range(call'.doc_ids)
              /\ files'[p].tracked
              /\ files'[p].file_mtime = Secs(call'.mtime)
              /\ (disk'[p].exists /\ disk'[p].mtime = call'.mtime)
                   => get_file_state(files', disk', p) = "Indexed"
              /\ \A q \in Paths \ {p} :
                   files'[q] = files[q] /\ file_docs'[q] = file_docs[q]]_vars

C20_Witness ==
  /\ call.op = "mark_indexed" /\ call.ok
  /\ call.old # {} /\ call.old \cap Range(call.doc_ids) = {}
  /\ call.doc_ids # <<>>
  /\ file_docs[call.path] = Range(call.doc_ids)
  /\ disk[call.path].exists /\ disk[call.path].mtime = call.mtime
  /\ \E q \in Paths \ {call.path} : files[q].tracked /\ file_docs[q] # {}

\* C21: a tracked file deleted from disk is reported Deleted and
\* get_deleted_files lists exactly the tracked paths absent from disk;
\* remove_file(path) returns exactly the doc_ids recorded under path, and
\* afterwards the path has no file record and no doc_ids (file_count one
\* less) while all other records are unchanged.
C21_RemoveFileReturnsOwnedIds ==
  /\ [](/\ \A p \in Paths :
             (files[p].tracked /\ ~disk[p].exists)
               => get_file_state(files, disk, p) = "Deleted"
        /\ get_deleted_files(files, disk)
             = {p \in Paths : files[p].tracked /\ ~disk[p].exists})
  /\ [][(call' # call /\ call'.op = "remove_file")
          => LET p == call'.path
             IN  /\ call'.returned = file_docs[p]
                 /\ ~files'[p].tracked
                 /\ file_docs'[p] = {}
                 /\ files[p].tracked => file_count(files') = file_count(files) - 1
                 /\ \A q \in Paths \ {p} :
                      files'[q] = files[q] /\ file_docs'[q] = file_docs[q]]_vars

C21_Witness ==
  /\ call.op = "remove_file"
  /\ call.returned # {}
  /\ ~disk[call.path].exists
  /\ ~files[call.path].tracked
  /\ file_count(files) = 1

\* The kinds of event a path received in the window.
KindsOf(path) == {e.kind : e \in {x \in watch.seen : x.path = path}}
Ignored(path) == should_ignore(watch.ignore_patterns, path)
InLists(path) ==
  (IF path \in watch.batch.modified THEN 1 ELSE 0)
    + (IF path \in watch.batch.deleted THEN 1 ELSE 0)

\* What C22 says of every batch, apart from the paths that must be listed:
\* the lists are disjoint, a file path with a Create/Modify and a Remove
\* event is not in modified (and is in deleted unless ignored), and no
\* ignored path is listed.
BatchShape ==
  /\ watch.batch.modified \cap watch.batch.deleted = {}
  /\ \A path \in WatchFiles :
       (KindsOf(path) \cap {"Create", "Modify"} # {} /\ "Remove" \in KindsOf(path))
         => /\ path \notin watch.batch.modified
            /\ ~Ignored(path) => path \in watch.batch.deleted
  /\ \A path \in WatchPaths : Ignored(path) => InLists(path) = 0

\* C22 as stated: in every ChangeBatch modified and deleted are disjoint, a
\* path with a Create/Modify and a Remove event is only in deleted, no
\* ignored path is listed, and every other file path that had an event in
\* the window is in exactly one of the two lists.
C22_EveryEventPathListedOnce ==
  watch.status = "returned"
    => /\ BatchShape
       /\ \A path \in WatchFiles :
            (KindsOf(path) # {} /\ ~Ignored(path)) => InLists(path) = 1

\* C22: in every ChangeBatch modified and deleted are disjoint, a path with
\* a Create/Modify and a Remove event is only in deleted, no ignored path is
\* listed, and every other file path that had a Create, Modify or Remove
\* event in the window is in exactly one of the two lists; a file path with
\* events of other kinds only is in neither.
C22_ChangedPathListedOnce ==
  watch.status = "returned"
    => /\ BatchShape
       /\ \A path \in WatchFiles :
            ~Ignored(path)
              => InLists(path)
                   = IF KindsOf(path) \cap {"Create", "Modify", "Remove"} # {}
                     THEN 1 ELSE 0
       /\ \A path \in WatchFiles :
            (~Ignored(path) /\ "Remove" \in KindsOf(path))
              => path \in watch.batch.deleted

C22_Witness ==
  /\ watch.status = "returned"
  /\ watch.ignore_patterns # {}
  /\ {"Modify", "Remove"} \subseteq KindsOf(Plain)
  /\ watch.batch.deleted = {Plain}
  /\ watch.batch.modified = {}
  /\ KindsOf(Temp) # {}

\* A step of garbage_collect, and a step of run_with_progress that works on p.
GcStep == pc = "idle" /\ pc' = "idle" /\ ops' = ops + 1
RunStepOn(p) ==
  \/ pc = "phase2" /\ pending2 # <<>> /\ Head(pending2) = p
  \/ pc = "phase3" /\ pending3 # <<>> /\ Head(pending3) = p
  \/ pc = "pages" /\ cur.path = p

\* C23: run_with_progress never removes a file record; garbage_collect
\* removes a file record only if its path does not exist on disk at that
\* time; the record of a Modified file survives garbage_collect unchanged
\* (old mtime), needs_indexing is true for it afterwards, and its record
\* changes only when the run works on that file.
C23_RecordsRemovedOnlyByGcWhenAbsent ==
  [][\A p \in Paths :
       /\ (files[p].tracked /\ ~files'[p].tracked) => (GcStep /\ ~disk[p].exists)
       /\ (GcStep /\ get_file_state(files, disk, p) = "Modified")
            => (files'[p] = files[p] /\ needs_indexing(files', disk', p))
       /\ (get_file_state(files, disk, p) = "Modified" /\ files'[p] # files[p])
            => RunStepOn(p)]_vars

C23_Witness ==
  /\ Len(hist) >= 1
  /\ Last.op = "gc"
  /\ Last.modified # {}
  /\ \A p \in Last.modified :
       /\ files[p].tracked
       /\ file_docs[p] # {}
       /\ needs_indexing(files, disk, p)
       /\ \A d \in file_docs[p] : d \notin VecIds

\* The rows of the store that carry a doc_id recorded for one of the paths.
OwnedRows(paths) == {r \in vec : \E p \in paths : r.doc_id \in file_docs[p]}

\* C24: garbage_collect returns deleted_files equal to the number of tracked
\* paths that are absent from disk, modified_files equal to the number of
\* tracked files in state Modified, and embeddings_removed equal to the
\* number of rows those files owned in the store.
C24_GcResultCounts ==
  [][(GcStep /\ hist'[Len(hist')].ok)
       => LET gone == get_deleted_files(files, disk)
              modif == {p \in Paths : get_file_state(files, disk, p) = "Modified"}
          IN  /\ gcResult'.deleted_files = Cardinality(gone)
              /\ gcResult'.modified_files = Cardinality(modif)
              /\ gcResult'.embeddings_removed = Cardinality(OwnedRows(gone \cup modif))]_vars

IsPrefix(pre, str) == Len(pre) <= Len(str) /\ SubSeq(str, 1, Len(pre)) = pre

\* C25: for every string p, get_metadata(p) returns a row whose doc_id has p
\* as a literal prefix whenever such a row exists, and none when no stored
\* doc_id starts with p, also when p contains % or _.
C25_GetMetadataLiteralPrefix ==
  table.op = "get_metadata"
    => LET starting == {r \in table.rows : IsPrefix(table.arg, r.doc_id)}
       IN  /\ starting # {} => (table.returned # {} /\ table.returned \subseteq starting)
           /\ starting = {} => table.returned = {}

\* C26: add_embedding with a vector whose length is not the dimension and
\* search with such a query each return an error and leave the rows as they
\* were; every stored vector has the dimension's length.
C26_WrongLengthIsAnError ==
  /\ \A r \in table.rows : r.len = EMBEDDING_DIM
  /\ (table.op \in {"add_embedding", "search"} /\ table.len # EMBEDDING_DIM)
       => (table.status = "error" /\ table.rows = table.before)

\* C27: when the page loop passes an empty page n of a paged file, nothing
\* is stored for it but the checkpoint advances: afterwards the file has a
\* record whose page cursor is at least n + 1, or is cleared when n is the
\* last page (so a file whose pages are all empty gets a record).
C27_EmptyPageAdvancesCheckpoint ==
  [][(pc = "pages" /\ cur.pages[cur.next + 1] = 0 /\ kills' = kills)
       => LET p == cur.path
              n == cur.next
          IN  /\ vec' = vec /\ lexStaged' = lexStaged
              /\ files'[p].tracked
              /\ IF n + 1 = Len(cur.pages)
                   THEN files'[p].page_cursor = NoCursor
                   ELSE files'[p].page_cursor >= n + 1]_vars

\* C28: within one paged file no two stored chunks have the same
\* chunk_index, and a file with a page of more than 1000 chunks is skipped,
\* nothing of it being stored.
C28_PagedChunkIndexUnique ==
  /\ Cardinality({r.chunk_index : r \in paged.stored}) = Cardinality(paged.stored)
  /\ (\E k \in 1..paged.next : paged.pages[k] > PageStride)
       => (paged.status = "skipped" /\ paged.stored = {})

\* What a step adds to the Vector Store, to the Lexical Index writer, to the
\* record of p and to the ChunkEmbedded events.
NewVec == vec' \ vec
NewLex == lexStaged' \ lexStaged
NewIds(p) == file_docs'[p] \ file_docs[p]
NewChunkEvents == events'.ChunkEmbedded \ events.ChunkEmbedded

WritesFor(p) ==
  \/ RowsOf(vec', p) # RowsOf(vec, p)
  \/ RowsOf(lexStaged', p) \ RowsOf(lexStaged, p) # {}
  \/ files'[p] # files[p]
  \/ file_docs'[p] # file_docs[p]

\* C30: in every run all Phase-2 writes (store, lexical, state) of the flat
\* files happen before the first paged file is started, and save and commit
\* happen only after all per-file work of Phases 1-3.
C30_Phase2BeforePhase3BeforeCommit ==
  /\ [](/\ pc \in {"phase3", "pages", "phase4"} => (todo1 = {} /\ pending2 = <<>>)
        /\ pc = "phase4" => (pending3 = <<>> /\ cur = NoCur))
  /\ [][/\ \A p \in FlatFiles : (pc # "idle" /\ WritesFor(p)) => pc = "phase2"
        /\ \A p \in PagedFiles :
             (pc # "idle" /\ (WritesFor(p) \/ p \in events'.FileStarted \ events.FileStarted))
               => (pc \in {"phase3", "pages"}
                   /\ (FlatFiles \cap events.FileStarted)
                        \subseteq (events.FileIndexed \cup events.FileError))
        /\ (lexLive' # lexLive \/ events'.Done > events.Done) => pc = "phase4"]_vars

C30_Witness ==
  /\ pc = "phase4"
  /\ reindexed = Paths
  /\ \A p \in Paths : RowsOf(lexStaged, p) # {} /\ RowsOf(lexLive, p) = {}

\* The two result lists a hybrid search fuses, and the rank at which a
\* doc_id is first observed (vector list first, then the lexical list).
FusedVector == take(search.vector, search.limit * 2)
FusedLexical == take(search.lexical, search.limit * 2)
FirstObserved(d) ==
  LET seen == FusedVector \o FusedLexical
  IN  CHOOSE i \in 1..Len(seen) : seen[i] = d /\ \A j \in 1..(i - 1) : seen[j] # d

\* C31: the hybrid result list is sorted by descending summed RRF score and,
\* among doc_ids of equal score, by earlier first-observed rank, and it is
\* the first `limit` entries of that order.
C31_HybridTiesByFirstObserved ==
  (search.mode = "hybrid" /\ search.status = "ok" /\ search.limit > 0 /\ ~search.blank)
    => LET scores == doc_scores(FusedVector, FusedLexical)
           r == search.results
           Ahead(d, e) ==
             \/ Less(scores[e], scores[d])
             \/ (~Less(scores[d], scores[e]) /\ FirstObserved(d) < FirstObserved(e))
       IN  /\ \A i, j \in 1..Len(r) : i < j => Ahead(r[i], r[j])
           /\ \A d \in DOMAIN scores :
                d \notin Range(r) => \A i \in 1..Len(r) : Ahead(r[i], d)

\* The non-whitespace characters of a text, in order.
Ink(s) == SelectSeq(s, LAMBDA c : ~is_whitespace(c))
RECURSIVE Flat(_)
Flat(ss) == IF ss = <<>> THEN <<>> ELSE Head(ss) \o Flat(Tail(ss))
HasBlank(s) == \E i \in 1..(Len(s) - 1) : SubSeq(s, i, i + 1) = Blank
\* Every chunk made so far by the call, returned to the caller or not yet.
ChunksSoFar == Range(chunker.chunks) \cup Range(chunker.local)

\* C32: for every text and every max_len >= 1, every chunk chunk_text makes
\* is non-empty and has at most max_len characters, in the paragraph mode
\* and in the character mode alike.
C32_ChunksNonEmptyAndBounded ==
  chunker.max_len >= 1
    => \A chunk \in ChunksSoFar : chunk # <<>> /\ Len(chunk) <= chunker.max_len
\* A long text chunked in the paragraph mode has returned several chunks, one
\* of them two paragraphs joined by a blank line and of max_len characters
\* exactly, another one cut by the character mode out of a long paragraph.
C32_Witness ==
  /\ chunker.status = "returned"
  /\ chunker.max_len >= 1
  /\ chunker.caller = "paragraphs"
  /\ \E i \in 1..Len(chunker.chunks) :
       HasBlank(chunker.chunks[i]) /\ Len(chunker.chunks[i]) = chunker.max_len
  /\ \E i \in 1..Len(chunker.chunks) : Len(chunker.chunks[i]) < chunker.max_len

\* C33: for every text and every max_len >= 1 the chunks chunk_text returns,
\* taken in order, hold every non-whitespace character of the text exactly
\* once and in the original order (the pieces do not overlap and leave
\* nothing out); chunk_text is a function of (text, max_len).
C33_ChunksPartitionTheInk ==
  (chunker.status = "returned" /\ chunker.max_len >= 1)
    => Flat([i \in 1..Len(chunker.chunks) |-> Ink(chunker.chunks[i])]) = Ink(chunker.text)
\* A text with whitespace inside and around has been cut into three chunks
\* or more, some of them in the character mode under the paragraph mode.
C33_Witness ==
  /\ chunker.status = "returned"
  /\ chunker.max_len >= 1
  /\ chunker.caller = "paragraphs"
  /\ Len(chunker.chunks) >= 3
  /\ Len(Ink(chunker.text)) < Len(chunker.text)
  /\ \E i \in 1..Len(chunker.chunks) : HasBlank(chunker.chunks[i])

\* C40: chunk_text terminates for every text and every max_len >= 0: the
\* character-mode loop, once entered, comes to its end (each iteration of it
\* moves `start' forward), so that chunk_by_chars returns.
C40_CharsLoopEnds == (chunker.status = "chars") ~> (chunker.status # "chars")

\* The text matches the pattern: the pattern's characters, from left to
\* right, cover the whole text, a `*' any run of characters (an empty one
\* too), a `?' one character, any other character itself; cut[i] is where
\* the i-th pattern character's part of the text ends.
Matches(pattern, text) ==
  \E cut \in [0..Len(pattern) -> 0..Len(text)] :
    /\ cut[0] = 0
    /\ cut[Len(pattern)] = Len(text)
    /\ \A i \in 1..Len(pattern) :
         IF pattern[i] = "*" THEN cut[i] >= cut[i - 1]
         ELSE /\ cut[i] = cut[i - 1] + 1
              /\ (pattern[i] = "?" \/ pattern[i] = text[cut[i]])

\* C35: glob_match(pattern, text) returns, and returns true exactly when the
\* whole text matches the pattern, where `*' matches any run of characters,
\* the empty one too, `?' exactly one character, and every other character
\* itself.
C35_GlobMatchIsWholeTextMatch ==
  glob.status = "returned" => (glob.result <=> Matches(glob.pattern, glob.text))
\* glob_match has said yes to a pattern whose `*' stands for nothing and
\* whose `?' stands for a character of the text.
C35_Witness ==
  /\ glob.status = "returned"
  /\ glob.result
  /\ glob.pattern = <<"*", "?", "a">>
  /\ glob.text = <<"?", "a">>

\* wait_for_changes is over, with a batch or with the error of a closed channel.
WaitOver == watch.status \in {"returned", "error"}

C37_WrittenDuringRunStaysModified ==
  \A p \in FlatFiles :
    (pc = "idle" /\ faults = 0 /\ disk[p].exists
       /\ get_file_state(files, disk, p) = "Indexed")
      => Cardinality(file_docs[p]) = disk[p].content

\* C38: after every run that returns Ok every discovered file is accounted
\* for exactly once: files_indexed + files_skipped + files_unchanged + the
\* number of distinct paths in errors is the number of discovered files.
C38_EveryFileAccountedOnce ==
  (AfterRunOk /\ Last.clean)
    => files_indexed + files_skipped + files_unchanged + Cardinality(Range(errors))
         = Cardinality(discover_files(disk))

\* C39: within one run no path gets both a FileError and a FileIndexed
\* event, and a file that has a chunk gets FileIndexed only once its chunks
\* are in the Vector Store: the chunks of a flat file stored in this run,
\* every chunk of every page of a paged file stored.
C39_FileIndexedOnlyAfterStore ==
  pc # "idle"
    => /\ events.FileError \cap events.FileIndexed = {}
       /\ \A p \in events.FileIndexed \cap FlatFiles :
            results[p].chunks > 0
              => Cardinality(RowsOf(vec, p) \ RowsOf(snap.vec, p)) >= results[p].chunks
       /\ \A p \in events.FileIndexed \cap PagedFiles :
            \A x \in PageChunks(disk[p].content, Len(disk[p].content)) :
              \E r \in RowsOf(vec, p) : r.chunk_index = x

====
